---- MODULE Spec2Model ----
(***************************************************************************)
(* Verification model of the HTIT-Tracker firmware (src/src/main.h):       *)
(* NMEA sentence processing, fix/home state, waypoint store with EEPROM    *)
(* persistence, and the single-button UI state machine.                    *)
(*                                                                         *)
(* Conventions                                                             *)
(*  - A C string is a sequence of one-character strings; a pointer into it *)
(*    is a 1-based index; the terminating NUL sits at index Len+1.         *)
(*  - double latitude/longitude are fixed-point integers in units of 1e-4  *)
(*    arc-minute (1 degree = 600000 units), so deg + min/60 is exact.      *)
(*  - float HDOP is fixed-point in hundredths.                             *)
(*  - millis() is the variable now, in milliseconds.                       *)
(*  - The 8 stored bytes of a double are modelled sign-magnitude: bytes    *)
(*    0..3 little-endian magnitude, bytes 4..6 zero, byte 7 the sign.      *)
(***************************************************************************)
EXTENDS Integers, Sequences, FiniteSets, TLC

(***************************************************************************)
(* Bounds of the model                                                     *)
(***************************************************************************)
MaxTime == 10800
MaxBoots == 1
MaxStoreTime == 6600
MaxFixTime == 2400
MaxBtnTime == 3000
MaxIdleTime == 32000
MaxLineTime == 3000
MaxNmeaTime == 1800
MaxBattTime == 35000
MaxLcdTime == 3000
MaxLoopTime == 13200
MaxFeedTime == 2400
MaxPresses == 8
\* longest sequence of presses searched for a way back to the main menu
MaxPath == 7
MinVoltage == 2900
MaxVoltage == 4400

(***************************************************************************)
(* Program constants                                                       *)
(***************************************************************************)
EEPROM_MAGIC == 42420
ADDR_MAGIC == 0
ADDR_WAYPOINT1_LAT == 4
ADDR_WAYPOINT1_SET == 52
EEPROM_USED == 60
DEBOUNCE_MS == 200
LONG_PRESS_MS == 1000
SCREEN_TIMEOUT_MS == 30000
UnitsPerDegree == 600000
HDOP_INIT == 9999

SCREEN_STATUS == 0
SCREEN_NAVIGATION == 1
SCREEN_MAIN_MENU == 2
SCREEN_WAYPOINT_MENU == 3
SCREEN_WAYPOINT1_NAV == 4
SCREEN_WAYPOINT2_NAV == 5
SCREEN_WAYPOINT3_NAV == 6
SCREEN_SET_WAYPOINT == 7
SCREEN_SYSTEM_INFO == 8
SCREEN_POWER_MENU == 9
SCREEN_WAYPOINT_RESET == 10

(***************************************************************************)
(* C strings and the libc conversions the parser uses                      *)
(***************************************************************************)
CharTable ==
    <<"$","*",",","-",".","0","1","2","3","4","5","6","7","8","9",
      "A","B","C","E","G","L","M","N","P","Q","R","S","V","W">>
CodeTable ==
    <<36,42,44,45,46,48,49,50,51,52,53,54,55,56,57,
      65,66,67,69,71,76,77,78,80,81,82,83,86,87>>

\* ASCII code of a character; 0 for the terminating NUL
CharCode ==
    [c \in {"NUL"} |-> 0] @@
    [c \in {CharTable[i] : i \in DOMAIN CharTable} |->
        CodeTable[CHOOSE i \in DOMAIN CharTable : CharTable[i] = c]]
Ord(c) == CharCode[c]

\* *(p): the character at pointer p of string s
At(s, p) == IF p >= 1 /\ p <= Len(s) THEN s[p] ELSE "NUL"

IsDigit(c) == Ord(c) \in 48..57

\* strlen(p)
StrLen(s, p) == Len(s) - p + 1

\* strncmp(line, prefix, Len(prefix)) == 0
HasPrefix(s, prefix) ==
    \A i \in 1..Len(prefix) : At(s, i) = prefix[i]

\* strchr(p, ','): index of the first comma at or after p, 0 for NULL
StrChrComma(s, p) ==
    IF \E i \in p..Len(s) : s[i] = ","
    THEN CHOOSE i \in p..Len(s) : s[i] = "," /\ \A j \in p..(i-1) : s[j] # ","
    ELSE 0

\* index one past the run of digits that starts at p
RECURSIVE DigitsEnd(_, _)
DigitsEnd(s, p) == IF IsDigit(At(s, p)) THEN DigitsEnd(s, p + 1) ELSE p

\* value of the digits s[p..q-1]
RECURSIVE DigitsVal(_, _, _)
DigitsVal(s, p, q) ==
    IF q <= p THEN 0 ELSE DigitsVal(s, p, q - 1) * 10 + (Ord(s[q - 1]) - 48)

\* weight of the first of k remaining fraction digits
FracWeight(k) ==
    IF k = 1 THEN 1 ELSE IF k = 2 THEN 10 ELSE IF k = 3 THEN 100 ELSE 1000

\* value of the first k fraction digits at p (missing digits count as 0)
RECURSIVE FracVal(_, _, _)
FracVal(s, p, k) ==
    IF k = 0 \/ ~IsDigit(At(s, p)) THEN 0
    ELSE (Ord(At(s, p)) - 48) * FracWeight(k) + FracVal(s, p + 1, k - 1)

\* the optional sign of atoi / atof
SkipSign(s, p) == IF At(s, p) = "-" THEN p + 1 ELSE p
Signed(neg, v) == IF neg THEN 0 - v ELSE v

\* atoi(p): optional sign, then decimal digits; 0 when there are none
atoi(s, p) ==
    Signed(At(s, p) = "-", DigitsVal(s, SkipSign(s, p), DigitsEnd(s, SkipSign(s, p))))

\* the digits s[b..e-1] and the fraction after them, in fixed point with k
\* fraction digits
FixedVal(s, b, e, k) ==
    DigitsVal(s, b, e) * (IF k = 2 THEN 100 ELSE 10000)
    + (IF At(s, e) = "." THEN FracVal(s, e + 1, k) ELSE 0)

\* atof(p) in fixed point with k fraction digits (k = 2: hundredths,
\* k = 4: ten-thousandths); 0 when no number starts at p
atofFixed(s, p, k) ==
    Signed(At(s, p) = "-",
           FixedVal(s, SkipSign(s, p), DigitsEnd(s, SkipSign(s, p)), k))

(***************************************************************************)
(* Sentence field parsers                                                  *)
(***************************************************************************)
\* strchr(p + 1, ',') guarded by the NULL test on p
NextComma(s, p) == IF p = 0 THEN 0 ELSE StrChrComma(s, p + 1)

\* atoi(p + 1) guarded by the NULL test on p
AtoiAfter(s, p) == IF p = 0 THEN 0 ELSE atoi(s, p + 1)

\* variant of parseGSVinView that reads the integer after the second comma
parseGSVinViewSecond(gsvLine) ==
    AtoiAfter(gsvLine, NextComma(gsvLine, StrChrComma(gsvLine, 1)))

\* parseGSVinView: the integer after the third comma, 0 if a comma is missing
parseGSVinView(gsvLine) ==
    AtoiAfter(gsvLine, NextComma(gsvLine, NextComma(gsvLine, StrChrComma(gsvLine, 1))))

\* the scan loop of parseGGAfixQuality / parseGGAHDOP: pointer after the
\* n-th comma, or the NUL position when the line ends first
RECURSIVE SkipCommas(_, _, _, _)
SkipCommas(s, p, commaCount, n) ==
    IF At(s, p) = "NUL" \/ commaCount >= n THEN p
    ELSE SkipCommas(s, p + 1, IF s[p] = "," THEN commaCount + 1 ELSE commaCount, n)

\* the return of parseGGAfixQuality once the scan stopped at p
FixQualityAt(s, p) == IF At(s, p) = "NUL" THEN 0 ELSE atoi(s, p)

\* variant of parseGGAfixQuality that stops the scan after five commas
parseGGAfixQualityFive(ggaLine) == FixQualityAt(ggaLine, SkipCommas(ggaLine, 1, 0, 5))

parseGGAfixQuality(ggaLine) == FixQualityAt(ggaLine, SkipCommas(ggaLine, 1, 0, 6))

\* the return of parseGGAHDOP once the scan stopped at p
HdopAt(s, p) ==
    IF At(s, p) = "NUL" \/ At(s, p) = "," THEN 0 - 100 ELSE atofFixed(s, p, 2)

\* parseGGAHDOP in hundredths; -100 is the -1.0f sentinel
parseGGAHDOP(ggaLine) == HdopAt(ggaLine, SkipCommas(ggaLine, 1, 0, 8))

\* the split loop of parseGGAPosition: start pointers of the fields closed
\* by a ',' or '*', at most 15 of them
RECURSIVE SplitFields(_, _, _, _)
SplitFields(s, p, start, fields) ==
    IF At(s, p) = "NUL" \/ Len(fields) >= 15 THEN fields
    ELSE IF s[p] = "," \/ s[p] = "*"
         THEN SplitFields(s, p + 1, p + 1, Append(fields, start))
         ELSE SplitFields(s, p + 1, start, fields)

\* latitude of the field at latStr with hemisphere at latDir
LatOf(s, latStr, latDir) ==
    Signed(At(s, latDir) = "S",
           ((Ord(At(s, latStr)) - 48) * 10 + (Ord(At(s, latStr + 1)) - 48))
               * UnitsPerDegree
           + atofFixed(s, latStr + 2, 4))

\* longitude of the field at lonStr with hemisphere at lonDir
LonOf(s, lonStr, lonDir) ==
    Signed(At(s, lonDir) = "W",
           ((Ord(At(s, lonStr)) - 48) * 100 + (Ord(At(s, lonStr + 1)) - 48) * 10
              + (Ord(At(s, lonStr + 2)) - 48)) * UnitsPerDegree
           + atofFixed(s, lonStr + 3, 4))

NoPosition == [ok |-> FALSE, lat |-> 0, lon |-> 0]

\* parseGGAPosition after the split: fields[k + 1] is the code's fields[k]
PositionOf(s, fields) ==
    IF Len(fields) < 6 THEN NoPosition
    ELSE IF StrLen(s, fields[3]) < 7 \/ StrLen(s, fields[4]) < 1 THEN NoPosition
    ELSE IF StrLen(s, fields[5]) < 8 \/ StrLen(s, fields[6]) < 1 THEN NoPosition
    ELSE [ok |-> TRUE, lat |-> LatOf(s, fields[3], fields[4]),
          lon |-> LonOf(s, fields[5], fields[6])]

\* parseGGAPosition: [ok, lat, lon]
parseGGAPosition(ggaLine) == PositionOf(ggaLine, SplitFields(ggaLine, 1, 1, <<>>))

(***************************************************************************)
(* Sample sentences fed to the serial input                                *)
(***************************************************************************)
\* $GNGGA,1,4807.0380,N,01131.0000,E,1,8,0.9
LineGGAFixA ==
    <<"$","G","N","G","G","A",",","1",",","4","8","0","7",".","0","3","8","0",",","N",",","0","1","1","3","1",".","0","0","0","0",",","E",",","1",",","8",",","0",".","9">>
\* $GNGGA,2,3352.1000,S,15112.5000,W,2,9,1.5
LineGGAFixB ==
    <<"$","G","N","G","G","A",",","2",",","3","3","5","2",".","1","0","0","0",",","S",",","1","5","1","1","2",".","5","0","0","0",",","W",",","2",",","9",",","1",".","5">>
\* $GNGGA,3,,,,,0,00,99.99,,,,,,*56
LineGGANoFix ==
    <<"$","G","N","G","G","A",",","3",",",",",",",",",",","0",",","0","0",",","9","9",".","9","9",",",",",",",",",",",",","*","5","6">>
\* $GNGGA,7,,,,,1
LineGGAFixOnly ==
    <<"$","G","N","G","G","A",",","7",",",",",",",",",",","1">>
\* $GNGGA,8,5130.5000,N,00007.5000,W,0,0,99.9
LineGGAHeld ==
    <<"$","G","N","G","G","A",",","8",",","5","1","3","0",".","5","0","0","0",",","N",",","0","0","0","0","7",".","5","0","0","0",",","W",",","0",",","0",",","9","9",".","9">>
\* $GPGSV,3,1,08
LineGPGSV ==
    <<"$","G","P","G","S","V",",","3",",","1",",","0","8">>
\* $GNRMC,1
LineRMC ==
    <<"$","G","N","R","M","C",",","1">>

SampleLines == {LineGGAFixA, LineGGAFixB, LineGGANoFix, LineGPGSV, LineRMC}

\* further sentences: the other constellations, a GSV sentence cut after its
\* third field, and GGA sentences with a missing fix quality, an empty HDOP
\* and an HDOP beyond the accepted range
\* $GLGSV,2,1,05
LineGLGSV ==
    <<"$","G","L","G","S","V",",","2",",","1",",","0","5">>
\* $GLGSV,2,1
LineGLGSVShort ==
    <<"$","G","L","G","S","V",",","2",",","1">>
\* $GBGSV,1,1,03,01,40,083,46
LineGBGSV ==
    <<"$","G","B","G","S","V",",","1",",","1",",","0","3",",","0","1",",","4","0",",","0","8","3",",","4","6">>
\* $GAGSV,1,1,04
LineGAGSV ==
    <<"$","G","A","G","S","V",",","1",",","1",",","0","4">>
\* $GQGSV,1,1,01
LineGQGSV ==
    <<"$","G","Q","G","S","V",",","1",",","1",",","0","1">>
\* $GNGGA,4,4807
LineGGAShort ==
    <<"$","G","N","G","G","A",",","4",",","4","8","0","7">>
\* $GNGGA,5,,,,,1,00,,
LineGGAEmptyHdop ==
    <<"$","G","N","G","G","A",",","5",",",",",",",",",",","1",",","0","0",",",",">>
\* $GNGGA,6,,,,,0,00,100.5
LineGGABigHdop ==
    <<"$","G","N","G","G","A",",","6",",",",",",",",",",","0",",","0","0",",","1","0","0",".","5">>

NmeaLines ==
    {LineGPGSV, LineGLGSV, LineGLGSVShort, LineGBGSV, LineGAGSV, LineGQGSV,
     LineGGAFixA, LineGGAFixB, LineGGAShort, LineGGAEmptyHdop, LineGGABigHdop,
     LineRMC}

PfxGPGSV == <<"$","G","P","G","S","V">>
PfxGLGSV == <<"$","G","L","G","S","V">>
PfxGBGSV == <<"$","G","B","G","S","V">>
PfxGAGSV == <<"$","G","A","G","S","V">>
PfxGQGSV == <<"$","G","Q","G","S","V">>
PfxGNGGA == <<"$","G","N","G","G","A">>

(***************************************************************************)
(* Fix state update                                                        *)
(***************************************************************************)
\* variant of HdopValid without the lower limit
HdopValidUpperOnly(hdop) == hdop < 10000

\* the HDOP guard of processNMEALine, in hundredths
HdopValid(hdop) == hdop > 0 /\ hdop < 10000

\* variant of HomeGuard without the established latch
HomeGuardNoLatch(fixNow, established) == fixNow

\* the guard under which processNMEALine establishes home
HomeGuard(fixNow, established) == fixNow /\ ~established

\* what processNMEALine extracts from a line before it touches the state:
\* the branch taken and the values returned by the field parsers
SentenceEffect(line) ==
    IF HasPrefix(line, PfxGPGSV) THEN [kind |-> "gpsCount", count |-> parseGSVinView(line)]
    ELSE IF HasPrefix(line, PfxGLGSV) THEN [kind |-> "glonassCount", count |-> parseGSVinView(line)]
    ELSE IF HasPrefix(line, PfxGBGSV) THEN [kind |-> "beidouCount", count |-> parseGSVinView(line)]
    ELSE IF HasPrefix(line, PfxGAGSV) THEN [kind |-> "galileoCount", count |-> parseGSVinView(line)]
    ELSE IF HasPrefix(line, PfxGQGSV) THEN [kind |-> "qzssCount", count |-> parseGSVinView(line)]
    ELSE IF HasPrefix(line, PfxGNGGA)
         THEN [kind |-> "GGA", fixQual |-> parseGGAfixQuality(line),
               hdop |-> parseGGAHDOP(line), pos |-> parseGGAPosition(line)]
    ELSE [kind |-> "none"]

\* SentenceEffect of the sample sentences, evaluated once
EffectTable == [l \in SampleLines |-> SentenceEffect(l)]

EffectOf(line) ==
    IF line \in SampleLines THEN EffectTable[line] ELSE SentenceEffect(line)

\* the "$GNGGA" branch of processNMEALine on the fix record f
applyGGA(f, eff) ==
    LET hf == eff.fixQual > 0
        f1 == [f EXCEPT !.haveFix = hf,
                        !.lastHDOP = IF HdopValid(eff.hdop) THEN eff.hdop ELSE @]
        f2 == [f1 EXCEPT !.currentLat = eff.pos.lat,
                         !.currentLon = eff.pos.lon,
                         !.hasValidPosition = TRUE]
        f3 == [f2 EXCEPT !.homeLat = eff.pos.lat,
                         !.homeLon = eff.pos.lon,
                         !.homeEstablished = TRUE]
    IN  IF ~eff.pos.ok THEN f1
        ELSE IF HomeGuard(hf, f.homeEstablished) THEN f3
        ELSE f2

\* variant in which every GSV sentence also overwrites the GPS count
applyEffectShared(f, eff) ==
    IF eff.kind = "GGA" THEN applyGGA(f, eff)
    ELSE IF eff.kind = "none" THEN f
    ELSE [f EXCEPT ![eff.kind] = eff.count, !.gpsCount = eff.count]

\* the branch of processNMEALine selected by the sentence
applyEffect(f, eff) ==
    IF eff.kind = "GGA" THEN applyGGA(f, eff)
    ELSE IF eff.kind = "none" THEN f
    ELSE [f EXCEPT ![eff.kind] = eff.count]

\* variant of SumInView that leaves the GPS count out of the sum
SumInViewNoGps(g) ==
    [g EXCEPT !.totalInView = g.glonassCount + g.beidouCount
                              + g.galileoCount + g.qzssCount]

\* the closing statement of processNMEALine
SumInView(g) ==
    [g EXCEPT !.totalInView = g.gpsCount + g.glonassCount + g.beidouCount
                              + g.galileoCount + g.qzssCount]

\* processNMEALine on the fix record f (the speed estimate that
\* calculateSpeed keeps is not part of the record)
processNMEALine(f, line) == SumInView(applyEffect(f, EffectOf(line)))

(***************************************************************************)
(* Line assembly: the drain loop of update()                               *)
(***************************************************************************)
LINEBUF_SIZE == 128
LCD_INTERVAL == 1000

\* one pass of the while loop body for byte c; r holds lineBuf (its live
\* part, the linePos bytes accumulated so far), linePos, the fix record,
\* the list of lines handed to processNMEALine, the number of bytes read in
\* this drain and, for each call, that number when the call was made
feedByteUnbounded(r, c) ==
    IF c = "CR" \/ c = "LF"
    THEN IF r.linePos > 0
         THEN [r EXCEPT !.fix = processNMEALine(r.fix, r.lineBuf),
                        !.lineBuf = <<>>,
                        !.linePos = 0,
                        !.calls = Append(@, r.lineBuf),
                        !.callsAt = Append(@, r.seen)]
         ELSE r
    ELSE [r EXCEPT !.lineBuf = Append(@, c),
                   !.linePos = @ + 1]

feedByte(r, c) ==
    IF c = "CR" \/ c = "LF"
    THEN IF r.linePos > 0
         THEN [r EXCEPT !.fix = processNMEALine(r.fix, r.lineBuf),
                        !.lineBuf = <<>>,
                        !.linePos = 0,
                        !.calls = Append(@, r.lineBuf),
                        !.callsAt = Append(@, r.seen)]
         ELSE r
    ELSE IF r.linePos < LINEBUF_SIZE - 1
         THEN [r EXCEPT !.lineBuf = Append(@, c),
                        !.linePos = @ + 1]
         ELSE r

\* the while loop of update() over the buffered bytes (linePos is never
\* negative: the test only orders the evaluation)
RECURSIVE drain(_, _)
drain(r, bytes) ==
    IF bytes = <<>> \/ r.linePos < 0 THEN r
    ELSE IF Len(bytes) = 1
         THEN feedByte([r EXCEPT !.seen = @ + 1], bytes[1])
         ELSE drain(drain(r, SubSeq(bytes, 1, Len(bytes) \div 2)),
                    SubSeq(bytes, Len(bytes) \div 2 + 1, Len(bytes)))

(***************************************************************************)
(* Waypoint store and its EEPROM image                                     *)
(***************************************************************************)
WpIdx == 0..2

UnsetWaypoint == [lat |-> 0, lon |-> 0, isSet |-> FALSE, name |-> ""]

WpName(i) == IF i = 0 THEN "WP1" ELSE IF i = 1 THEN "WP2" ELSE "WP3"

\* the 4 bytes of a uint32 (values below 2^31), little-endian
Uint32Bytes(v) ==
    <<v % 256, (v \div 256) % 256, (v \div 65536) % 256, (v \div 16777216) % 256>>

\* the 8 stored bytes of a double
DoubleBytes(v) ==
    LET m == IF v < 0 THEN 0 - v ELSE v
    IN  Uint32Bytes(m) \o <<0, 0, 0, IF v < 0 THEN 128 ELSE 0>>

\* the double held by 8 stored bytes
BytesDouble(b) ==
    LET m == b[1] + 256 * b[2] + 65536 * b[3] + 16777216 * (b[4] % 128)
    IN  IF b[8] >= 128 THEN 0 - m ELSE m

\* EEPROM.put(addr, value) for a value of Len(bytes) bytes
EepromPut(e, addr, bytes) ==
    [a \in DOMAIN e |->
        IF a >= addr /\ a < addr + Len(bytes) THEN bytes[a - addr + 1] ELSE e[a]]

\* EEPROM.get(addr, value) for a value of n bytes
EepromGet(e, addr, n) == [k \in 1..n |-> e[addr + k - 1]]

\* address of waypoint i's latitude as the load/save loops compute it
WpBaseAddr(i) == ADDR_WAYPOINT1_LAT + i * 20

\* one iteration of the save loop
SaveOne(e, wps, i) ==
    LET e1 == EepromPut(e, WpBaseAddr(i), DoubleBytes(wps[i].lat))
        e2 == EepromPut(e1, WpBaseAddr(i) + 8, DoubleBytes(wps[i].lon))
    IN  EepromPut(e2, ADDR_WAYPOINT1_SET + i, <<IF wps[i].isSet THEN 1 ELSE 0>>)

\* variant of saveWaypointsToEEPROM that forgets the magic
saveWaypointsNoMagic(e, wps) ==
    SaveOne(SaveOne(SaveOne(e, wps, 0), wps, 1), wps, 2)

\* saveWaypointsToEEPROM: the image after the magic and the three waypoints
\* have been written in program order
saveWaypointsToEEPROM(e, wps) ==
    LET e0 == EepromPut(e, ADDR_MAGIC, Uint32Bytes(EEPROM_MAGIC))
    IN  SaveOne(SaveOne(SaveOne(e0, wps, 0), wps, 1), wps, 2)

MagicValid(e) == EepromGet(e, ADDR_MAGIC, 4) = Uint32Bytes(EEPROM_MAGIC)

\* values a bool can take after EEPROM.get copied one byte into it: bytes
\* other than 0 and 1 are not valid bool representations
BoolReads(byte) ==
    IF byte = 0 THEN {FALSE} ELSE IF byte = 1 THEN {TRUE} ELSE BOOLEAN

\* loadWaypointsFromEEPROM: the possible in-memory waypoint arrays
LoadOutcomes(e) ==
    IF ~MagicValid(e) THEN {[i \in WpIdx |-> UnsetWaypoint]}
    ELSE {[i \in WpIdx |->
             [lat   |-> BytesDouble(EepromGet(e, WpBaseAddr(i), 8)),
              lon   |-> BytesDouble(EepromGet(e, WpBaseAddr(i) + 8, 8)),
              isSet |-> flags[i],
              name  |-> WpName(i)]] :
           flags \in {fl \in [WpIdx -> BOOLEAN] :
                        \A i \in WpIdx : fl[i] \in BoolReads(e[ADDR_WAYPOINT1_SET + i])}}

\* loadWaypointsFromEEPROM: the image it leaves behind
LoadImage(e) ==
    IF ~MagicValid(e) THEN saveWaypointsToEEPROM(e, [i \in WpIdx |-> UnsetWaypoint])
    ELSE e

\* setWaypoint on the waypoint array (its save is applied by the caller)
setWaypoint(wps, index, lat, lon, name) ==
    IF index >= 0 /\ index < 3
    THEN [wps EXCEPT ![index] = [lat |-> lat, lon |-> lon, isSet |-> TRUE, name |-> name]]
    ELSE wps

(***************************************************************************)
(* Button timing                                                           *)
(***************************************************************************)
HIGH == TRUE
LOW == FALSE

\* variant of PressAccepted without the debounce window
PressAcceptedNoDebounce(last, cur, t, lbp) == last /\ ~cur

\* press start: HIGH-to-LOW transition that passes the debounce check
PressAccepted(last, cur, t, lbp) ==
    last /\ ~cur /\ (t - lbp > DEBOUNCE_MS)

\* variant of LongPressFires that ignores longPressHandled
LongPressFiresRepeat(cur, handled, start, t) ==
    ~cur /\ start > 0 /\ (t - start > LONG_PRESS_MS)

\* the long-press condition
LongPressFires(cur, handled, start, t) ==
    ~cur /\ ~handled /\ start > 0 /\ (t - start > LONG_PRESS_MS)

\* the release condition (LOW-to-HIGH transition not preceded by a long press)
ReleaseSeen(last, cur, handled) == ~last /\ cur /\ ~handled

\* the short-press condition inside the release block
ShortPressFires(start, t) == start > 0 /\ (t - start < LONG_PRESS_MS)

(***************************************************************************)
(* Screen transitions; u is the record of the fields a press can change:   *)
(* currentScreen, menuIndex, waypointToSet, waypointToReset,               *)
(* activeWaypoint, waypoints, eeprom, power                                *)
(***************************************************************************)
MenuScreens ==
    {SCREEN_MAIN_MENU, SCREEN_WAYPOINT_MENU, SCREEN_WAYPOINT_RESET, SCREEN_POWER_MENU}

\* variant of ScrollCount with three items on every menu
ScrollCountThree(screen) == 3

\* item count used by the long-press scroll of each menu screen
ScrollCount(screen) == IF screen = SCREEN_WAYPOINT_RESET THEN 3 ELSE 4

\* menuIndex after a long press
LongPressIndex(screen, idx) ==
    IF screen \in MenuScreens THEN (idx + 1) % ScrollCount(screen) ELSE 0

\* variant of LongPressScreen that never leaves the screen
LongPressScreenStay(screen) == screen

\* currentScreen after a long press
LongPressScreen(screen) ==
    IF screen \in MenuScreens THEN screen ELSE SCREEN_MAIN_MENU

longPress(u) ==
    [u EXCEPT !.currentScreen = LongPressScreen(u.currentScreen),
              !.menuIndex = LongPressIndex(u.currentScreen, u.menuIndex)]

\* short press on the main menu
shortMainMenu(u) ==
    IF u.menuIndex = 0 THEN [u EXCEPT !.currentScreen = SCREEN_STATUS]
    ELSE IF u.menuIndex = 1 THEN [u EXCEPT !.currentScreen = SCREEN_WAYPOINT_MENU,
                                           !.menuIndex = 0]
    ELSE IF u.menuIndex = 2 THEN [u EXCEPT !.currentScreen = SCREEN_SYSTEM_INFO]
    ELSE IF u.menuIndex = 3 THEN [u EXCEPT !.currentScreen = SCREEN_POWER_MENU]
    ELSE u

\* menuIndex written by "Back" in the waypoint menu and in the power menu
WaypointBackIndex == 2
PowerBackIndex == 4

\* variant of shortWaypointMenu that opens the set-waypoint screen for a
\* waypoint whether or not it is set
shortWaypointMenuAlwaysSet(u) ==
    IF u.menuIndex \in WpIdx
    THEN [u EXCEPT !.currentScreen = SCREEN_SET_WAYPOINT,
                   !.waypointToSet = u.menuIndex]
    ELSE IF u.menuIndex = 3
         THEN [u EXCEPT !.currentScreen = SCREEN_MAIN_MENU,
                        !.menuIndex = WaypointBackIndex]
    ELSE u

\* short press on the waypoint menu
shortWaypointMenu(u) ==
    IF u.menuIndex \in WpIdx
    THEN IF u.waypoints[u.menuIndex].isSet
         THEN [u EXCEPT !.currentScreen = SCREEN_WAYPOINT_RESET,
                        !.waypointToReset = u.menuIndex,
                        !.menuIndex = 0]
         ELSE [u EXCEPT !.currentScreen = SCREEN_SET_WAYPOINT,
                        !.waypointToSet = u.menuIndex]
    ELSE IF u.menuIndex = 3
         THEN [u EXCEPT !.currentScreen = SCREEN_MAIN_MENU,
                        !.menuIndex = WaypointBackIndex]
    ELSE u

\* variant of GpsReady that only asks for a position
GpsReadyPositionOnly(validPos, fixNow) == validPos

\* the "GPS is ready" guard of the set-waypoint screen
GpsReady(validPos, fixNow) == validPos /\ fixNow

\* short press on the set-waypoint screen
shortSetWaypoint(u, validPos, fixNow, lat, lon) ==
    IF GpsReady(validPos, fixNow)
    THEN LET wps == setWaypoint(u.waypoints, u.waypointToSet, lat, lon,
                                WpName(u.waypointToSet))
         IN  [u EXCEPT !.waypoints = wps,
                       !.eeprom = IF u.waypointToSet \in WpIdx
                                  THEN saveWaypointsToEEPROM(u.eeprom, wps) ELSE @,
                       !.currentScreen = SCREEN_WAYPOINT_MENU,
                       !.menuIndex = u.waypointToSet]
    ELSE u

\* variant of ActiveFor that keeps the 0-based index
ActiveForZeroBased(index) == index

\* activeWaypoint (1-based, 0 for none) written by "Navigate" for the
\* waypoint at index
ActiveFor(index) == index + 1

\* variant of shortWaypointReset whose Reset keeps the stored coordinates
shortWaypointResetFlagOnly(u) ==
    IF u.menuIndex = 0
    THEN [u EXCEPT !.currentScreen = SCREEN_WAYPOINT1_NAV + u.waypointToReset,
                   !.activeWaypoint = ActiveFor(u.waypointToReset)]
    ELSE IF u.menuIndex = 1
    THEN [u EXCEPT !.waypoints[u.waypointToReset].isSet = FALSE,
                   !.eeprom = saveWaypointsToEEPROM(u.eeprom,
                                 [u.waypoints EXCEPT ![u.waypointToReset].isSet = FALSE]),
                   !.currentScreen = SCREEN_SET_WAYPOINT,
                   !.waypointToSet = u.waypointToReset]
    ELSE IF u.menuIndex = 2
    THEN [u EXCEPT !.currentScreen = SCREEN_WAYPOINT_MENU,
                   !.menuIndex = u.waypointToReset]
    ELSE u

\* short press on the reset/navigate screen
shortWaypointReset(u) ==
    IF u.menuIndex = 0
    THEN [u EXCEPT !.currentScreen = SCREEN_WAYPOINT1_NAV + u.waypointToReset,
                   !.activeWaypoint = ActiveFor(u.waypointToReset)]
    ELSE IF u.menuIndex = 1
    THEN LET wps == [u.waypoints EXCEPT ![u.waypointToReset] = UnsetWaypoint]
         IN  [u EXCEPT !.waypoints = wps,
                       !.eeprom = saveWaypointsToEEPROM(u.eeprom, wps),
                       !.currentScreen = SCREEN_SET_WAYPOINT,
                       !.waypointToSet = u.waypointToReset]
    ELSE IF u.menuIndex = 2
    THEN [u EXCEPT !.currentScreen = SCREEN_WAYPOINT_MENU,
                   !.menuIndex = u.waypointToReset]
    ELSE u

\* short press on the power menu
shortPowerMenu(u) ==
    IF u.menuIndex = 0
    THEN [u EXCEPT !.power = "lightSleep",
                   !.currentScreen = SCREEN_MAIN_MENU,
                   !.menuIndex = 0]
    ELSE IF u.menuIndex = 1 THEN [u EXCEPT !.power = "deepSleep"]
    ELSE IF u.menuIndex = 2 THEN [u EXCEPT !.currentScreen = SCREEN_STATUS]
    ELSE IF u.menuIndex = 3
    THEN [u EXCEPT !.currentScreen = SCREEN_MAIN_MENU,
                   !.menuIndex = PowerBackIndex]
    ELSE u

\* the short-press dispatch of checkButton
shortPress(u, validPos, fixNow, lat, lon) ==
    IF u.currentScreen = SCREEN_MAIN_MENU THEN shortMainMenu(u)
    ELSE IF u.currentScreen = SCREEN_WAYPOINT_MENU THEN shortWaypointMenu(u)
    ELSE IF u.currentScreen = SCREEN_SET_WAYPOINT
         THEN shortSetWaypoint(u, validPos, fixNow, lat, lon)
    ELSE IF u.currentScreen = SCREEN_WAYPOINT_RESET THEN shortWaypointReset(u)
    ELSE IF u.currentScreen = SCREEN_POWER_MENU THEN shortPowerMenu(u)
    ELSE [u EXCEPT !.currentScreen = SCREEN_MAIN_MENU, !.menuIndex = 0]

(***************************************************************************)
(* Navigation math.  sin, cos, sqrt and atan2 of the C library are         *)
(* fixed-point approximations: angles are the position units, values of    *)
(* sin, cos and sqrt are scaled by SineScale, the haversine term by its    *)
(* square, arcs are in 1e-4 radian.  As in the library, sin is odd, cos is *)
(* even and a product rounds the same way for either sign.                 *)
(***************************************************************************)
EARTH_RADIUS == 6371000
SineScale == 10000

Abs(x) == IF x < 0 THEN 0 - x ELSE x

\* sin of c hundredths of a degree, 0 <= c <= 18000 (Bhaskara's formula)
Bhaskara(c) ==
    (4 * c * (18000 - c)) \div ((405000000 - c * (18000 - c)) \div SineScale)

\* sin of x >= 0, one hundredth of a degree being per units of x
SinePos(x, per) ==
    IF x % (36000 * per) >= 18000 * per
    THEN 0 - Bhaskara(((x % (36000 * per)) - 18000 * per + per \div 2) \div per)
    ELSE Bhaskara(((x % (36000 * per)) + per \div 2) \div per)

Sine(x, per) == IF x < 0 THEN 0 - SinePos(0 - x, per) ELSE SinePos(x, per)

\* sin(x / 2) and cos(x) for an angle of x position units
SinHalf(x) == Sine(x, 2 * (UnitsPerDegree \div 100))
Cos(x) == Sine(90 * UnitsPerDegree - Abs(x), UnitsPerDegree \div 100)

\* the product of two scaled values
Scaled(a, b) ==
    IF a * b < 0 THEN 0 - ((0 - a * b) \div SineScale) ELSE (a * b) \div SineScale

\* the largest r in lo..hi with r * r <= n
RECURSIVE RootIn(_, _, _)
RootIn(n, lo, hi) ==
    IF lo >= hi THEN lo
    ELSE IF ((lo + hi + 1) \div 2) * ((lo + hi + 1) \div 2) <= n
         THEN RootIn(n, (lo + hi + 1) \div 2, hi)
         ELSE RootIn(n, lo, (lo + hi + 1) \div 2 - 1)

\* sqrt of a haversine term
Root(a) == IF a <= 0 THEN 0 ELSE RootIn(a, 0, SineScale)

\* atan(z) for 0 <= z <= 1: z / (1 + 0.28 z^2)
ArcTanRatio(z) ==
    (z * SineScale) \div (SineScale + (28 * ((z * z) \div SineScale)) \div 100)

\* atan2(y, x) for y >= 0 and x >= 0
ArcTan2(y, x) ==
    IF y = 0 THEN 0
    ELSE IF y <= x THEN ArcTanRatio((y * SineScale) \div x)
    ELSE 15708 - ArcTanRatio((x * SineScale) \div y)

\* variant of haversineTerm that takes both cosines from the first point
haversineTermFirstOnly(lat1, lon1, lat2, lon2) ==
    SinHalf(lat2 - lat1) * SinHalf(lat2 - lat1)
    + Scaled(Scaled(Cos(lat1), Cos(lat1)), SinHalf(lon2 - lon1)) * SinHalf(lon2 - lon1)

\* the term a of the Haversine formula
haversineTerm(lat1, lon1, lat2, lon2) ==
    SinHalf(lat2 - lat1) * SinHalf(lat2 - lat1)
    + Scaled(Scaled(Cos(lat1), Cos(lat2)), SinHalf(lon2 - lon1)) * SinHalf(lon2 - lon1)

\* EARTH_RADIUS * 2 * atan2(sqrt(a), sqrt(1 - a)), in metres
arcMeters(a) ==
    ((EARTH_RADIUS \div 1000) * 2 * ArcTan2(Root(a), Root(SineScale * SineScale - a)) + 5) \div 10

\* calculateDistanceToHome
calculateDistanceToHome(f) ==
    IF ~f.homeEstablished \/ ~f.hasValidPosition THEN 0
    ELSE arcMeters(haversineTerm(f.currentLat, f.currentLon, f.homeLat, f.homeLon))

\* calculateDistanceToWaypoint
calculateDistanceToWaypoint(f, wps, waypointIndex) ==
    IF waypointIndex < 0 \/ waypointIndex >= 3 THEN 0
    ELSE IF ~wps[waypointIndex].isSet \/ ~f.hasValidPosition THEN 0
    ELSE arcMeters(haversineTerm(f.currentLat, f.currentLon,
                                 wps[waypointIndex].lat, wps[waypointIndex].lon))

\* variant of cardinalBucket whose buckets exclude their lower bound
cardinalBucketExclusive(bearing) ==
    IF bearing > 3375 \/ bearing <= 225 THEN "N"
    ELSE IF bearing > 225 /\ bearing <= 675 THEN "NE"
    ELSE IF bearing > 675 /\ bearing <= 1125 THEN "E"
    ELSE IF bearing > 1125 /\ bearing <= 1575 THEN "SE"
    ELSE IF bearing > 1575 /\ bearing <= 2025 THEN "S"
    ELSE IF bearing > 2025 /\ bearing <= 2475 THEN "SW"
    ELSE IF bearing > 2475 /\ bearing <= 2925 THEN "W"
    ELSE "NW"

\* the if-chain of getCardinalDirection, the bearing in tenths of a degree
cardinalBucket(bearing) ==
    IF bearing >= 3375 \/ bearing < 225 THEN "N"
    ELSE IF bearing >= 225 /\ bearing < 675 THEN "NE"
    ELSE IF bearing >= 675 /\ bearing < 1125 THEN "E"
    ELSE IF bearing >= 1125 /\ bearing < 1575 THEN "SE"
    ELSE IF bearing >= 1575 /\ bearing < 2025 THEN "S"
    ELSE IF bearing >= 2025 /\ bearing < 2475 THEN "SW"
    ELSE IF bearing >= 2475 /\ bearing < 2925 THEN "W"
    ELSE "NW"

\* variant of getCardinalDirection that does not look at homeEstablished
getCardinalDirectionFixOnly(haveFixNow, homeKnown, bearing) ==
    IF ~haveFixNow THEN "O" ELSE cardinalBucket(bearing)

\* getCardinalDirection
getCardinalDirection(haveFixNow, homeKnown, bearing) ==
    IF ~haveFixNow THEN "O"
    ELSE IF ~homeKnown THEN "N"
    ELSE cardinalBucket(bearing)

(***************************************************************************)
(* Battery: voltages in millivolts, percentages as integers                *)
(***************************************************************************)
\* roundf(n / d) for n >= 0, d > 0
RoundDiv(n, d) == (2 * n + d) \div (2 * d)

\* one segment of the discharge curve: roundf(base + (vb - lo) / width * span)
Segment(base, vb, lo, width, span) == base + RoundDiv((vb - lo) * span, width)

\* variant of voltageToPercent whose 4.00-4.10 V segment spans 85..100
voltageToPercentSteep(vb) ==
    IF vb >= 4200 THEN 100
    ELSE IF vb >= 4100 THEN Segment(95, vb, 4100, 100, 5)
    ELSE IF vb >= 4000 THEN Segment(85, vb, 4000, 100, 15)
    ELSE IF vb >= 3900 THEN Segment(70, vb, 3900, 100, 15)
    ELSE IF vb >= 3800 THEN Segment(50, vb, 3800, 100, 20)
    ELSE IF vb >= 3700 THEN Segment(30, vb, 3700, 100, 20)
    ELSE IF vb >= 3600 THEN Segment(15, vb, 3600, 100, 15)
    ELSE IF vb >= 3500 THEN Segment(5, vb, 3500, 100, 10)
    ELSE IF vb >= 3300 THEN Segment(0, vb, 3300, 200, 5)
    ELSE 0

\* voltageToPercent
voltageToPercent(vb) ==
    IF vb >= 4200 THEN 100
    ELSE IF vb >= 4100 THEN Segment(95, vb, 4100, 100, 5)
    ELSE IF vb >= 4000 THEN Segment(85, vb, 4000, 100, 10)
    ELSE IF vb >= 3900 THEN Segment(70, vb, 3900, 100, 15)
    ELSE IF vb >= 3800 THEN Segment(50, vb, 3800, 100, 20)
    ELSE IF vb >= 3700 THEN Segment(30, vb, 3700, 100, 20)
    ELSE IF vb >= 3600 THEN Segment(15, vb, 3600, 100, 15)
    ELSE IF vb >= 3500 THEN Segment(5, vb, 3500, 100, 10)
    ELSE IF vb >= 3300 THEN Segment(0, vb, 3300, 200, 5)
    ELSE 0

BATTERY_SAMPLES == 5
CHARGING_INTERVAL == 10000

\* the battery members as the constructor leaves them
BattInit ==
    [batteryReadings |-> [i \in 0..(BATTERY_SAMPLES - 1) |-> 0],
     batteryIndex |-> 0, batteryBufferFull |-> FALSE,
     lastBatteryVoltage |-> 0, isCharging |-> FALSE, lastChargingCheck |-> 0]

\* getStableBatteryPercent up to the buffer-full test: the members after the
\* raw percentage was stored
storeReading(b, rawPercent) ==
    [b EXCEPT !.batteryReadings[b.batteryIndex] = rawPercent,
              !.batteryIndex = (@ + 1) % BATTERY_SAMPLES,
              !.batteryBufferFull = @ \/ (b.batteryIndex + 1) % BATTERY_SAMPLES = 0]

\* variant of stableResult that averages the buffer from the first call on
stableResultAlwaysMean(b, rawPercent) ==
    RoundDiv(b.batteryReadings[0] + b.batteryReadings[1] + b.batteryReadings[2]
             + b.batteryReadings[3] + b.batteryReadings[4], BATTERY_SAMPLES)

\* the return value of getStableBatteryPercent, b being the members after
\* the raw percentage was stored
stableResult(b, rawPercent) ==
    IF ~b.batteryBufferFull THEN rawPercent
    ELSE RoundDiv(b.batteryReadings[0] + b.batteryReadings[1] + b.batteryReadings[2]
                  + b.batteryReadings[3] + b.batteryReadings[4], BATTERY_SAMPLES)

\* the classification of updateChargingStatus for a voltage and its change
chargingVerdict(was, voltage, voltageChange) ==
    IF voltage > 4150 /\ voltageChange > 50 THEN TRUE
    ELSE IF voltage < 4100 \/ voltageChange < 0 - 20 THEN FALSE
    ELSE was

\* variant of updateChargingStatus that evaluates every sample
updateChargingStatusEverySample(b, voltage, t) ==
    IF b.lastChargingCheck = 0
    THEN [b EXCEPT !.lastBatteryVoltage = voltage,
                   !.lastChargingCheck = t,
                   !.isCharging = FALSE]
    ELSE [b EXCEPT !.isCharging = chargingVerdict(@, voltage,
                                                  voltage - b.lastBatteryVoltage),
                   !.lastBatteryVoltage = voltage,
                   !.lastChargingCheck = t]

\* updateChargingStatus with millis() = t
updateChargingStatus(b, voltage, t) ==
    IF t - b.lastChargingCheck < CHARGING_INTERVAL THEN b
    ELSE IF b.lastChargingCheck = 0
         THEN [b EXCEPT !.lastBatteryVoltage = voltage,
                        !.lastChargingCheck = t,
                        !.isCharging = FALSE]
         ELSE [b EXCEPT !.isCharging = chargingVerdict(@, voltage,
                                                       voltage - b.lastBatteryVoltage),
                        !.lastBatteryVoltage = voltage,
                        !.lastChargingCheck = t]

(***************************************************************************)
(* Display refresh: the part of updateLCD that writes program state        *)
(***************************************************************************)
NavScreens == {SCREEN_WAYPOINT1_NAV, SCREEN_WAYPOINT2_NAV, SCREEN_WAYPOINT3_NAV}

\* currentScreen after updateWaypointNavigationScreen
updateWaypointNavigationScreen(screen, active) ==
    IF active = 0 THEN SCREEN_SET_WAYPOINT ELSE screen

\* currentScreen after updateLCD
updateLCD(screen, active) ==
    IF screen \in NavScreens THEN updateWaypointNavigationScreen(screen, active)
    ELSE screen

(***************************************************************************)
(* Display: what the screen functions of updateLCD draw                    *)
(*                                                                         *)
(* The five text rows (y = 0, 16, 32, 48, 64) are numbered 0..4.  A text   *)
(* is a pair of its fixed part and the numbers printed into it.  The       *)
(* operators work on a record l of the display members (the members of the *)
(* class, the static locals of the screen functions, what the panel shows  *)
(* and what the current pass did) and a record d of the data they read.    *)
(***************************************************************************)
Rows == 0..4
Blank == <<"", <<>>>>
BlankPanel == [r \in Rows |-> Blank]

Label(str) == <<str, <<>>>>
Item(str, selected) == <<str, IF selected THEN <<1>> ELSE <<0>>>>

\* the display members as the constructor and the static initialisers leave
\* them, and the panel as begin() leaves it
LcdInit ==
    [lastDisplayedScreen |-> SCREEN_MAIN_MENU,
     prevDisplayValid |-> FALSE,
     forceScreenRedraw |-> FALSE,
     prevFixBuf |-> Blank, prevSatBuf |-> Blank, prevBattBuf |-> Blank,
     prevAccBuf |-> Blank, prevDistBuf |-> Blank, prevSpeedBuf |-> Blank,
     mainMenu |-> [screenInitialized |-> FALSE, lastMenuIndex |-> 0 - 1],
     waypointMenu |-> [screenInitialized |-> FALSE, lastMenuIndex |-> 0 - 1,
                       lastWaypointStates |-> [i \in 0..2 |-> FALSE]],
     navNeedsFullRedraw |-> TRUE,
     waypointReset |-> [screenInitialized |-> FALSE, lastMenuIndex |-> 0 - 1,
                        lastWaypointToReset |-> 0 - 1],
     setWaypoint |-> [screenInitialized |-> FALSE, lastGPSReady |-> FALSE,
                      lastSatCount |-> 0 - 1],
     systemInfo |-> [screenInitialized |-> FALSE, lastSatCount |-> 0 - 1,
                     lastBattPercent |-> 0 - 1],
     powerMenu |-> [screenInitialized |-> FALSE, lastMenuIndex |-> 0 - 1],
     panel |-> BlankPanel,
     pass |-> [at |-> 0, pct |-> 0, cleared |-> FALSE, written |-> {}]]

\* st7735_fill_screen followed by the st7735_write_str calls for rows
FullDraw(l, rows) ==
    [l EXCEPT !.panel = rows,
              !.pass.cleared = TRUE,
              !.pass.written = {r \in Rows : rows[r] # Blank}]

\* st7735_fill_screen alone
ClearIf(l, needsFullRedraw) ==
    IF needsFullRedraw
    THEN [l EXCEPT !.panel = BlankPanel, !.pass.cleared = TRUE]
    ELSE l

\* one st7735_write_str
WriteRow(l, r, text) ==
    [l EXCEPT !.panel[r] = text, !.pass.written = @ \cup {r}]

\* a row of the status and navigation screens: written when the screen is
\* redrawn or the text differs from the one kept in buf
DiffRow(l, needsFullRedraw, r, text, buf) ==
    IF needsFullRedraw \/ text # l[buf]
    THEN [WriteRow(l, r, text) EXCEPT ![buf] = text]
    ELSE l

\* the texts
FixText(d) == IF d.fix.haveFix THEN Label("Fix: Yes") ELSE Label("Fix: No")
SatText(d) == <<"Sats:", <<d.fix.totalInView>>>>
BattText(d) == <<"Batt:", <<d.pct>>>>
\* accuracy HDOP x 5 m printed with one decimal, in tenths of a metre
AccText(d) ==
    IF d.fix.haveFix /\ d.fix.lastHDOP > 0 /\ d.fix.lastHDOP < 10000
    THEN <<"Acc:", <<RoundDiv(d.fix.lastHDOP * 5, 10)>>>>
    ELSE Label("Acc: --.-m")
\* direction and distance are functions of the two positions: the text is
\* identified by them
HomeDirText(d) ==
    IF d.fix.haveFix
    THEN <<"Dir:", <<d.fix.currentLat, d.fix.currentLon, d.fix.homeLat, d.fix.homeLon>>>>
    ELSE Label("Dir: O")
HomeDistText(d) ==
    IF d.fix.homeEstablished /\ d.fix.hasValidPosition
    THEN <<"Home:", <<d.fix.currentLat, d.fix.currentLon, d.fix.homeLat, d.fix.homeLon>>>>
    ELSE Label("Home: --.-m")
\* the speed estimate is not part of the model
SpeedText(d) == Label("Spd:")
WpDirText(d, wp) ==
    IF d.fix.haveFix /\ wp.isSet
    THEN <<"Dir:", <<d.fix.currentLat, d.fix.currentLon, wp.lat, wp.lon>>>>
    ELSE Label("Dir: O")
WpDistText(d, wp) ==
    IF d.fix.hasValidPosition /\ wp.isSet
    THEN <<"WP:", <<d.activeWaypoint, d.fix.currentLat, d.fix.currentLon, wp.lat, wp.lon>>>>
    ELSE <<"WP: --.-m", <<d.activeWaypoint>>>>

StatusRows(d) ==
    [r \in Rows |-> IF r = 0 THEN FixText(d) ELSE IF r = 1 THEN SatText(d)
                    ELSE IF r = 2 THEN BattText(d) ELSE IF r = 3 THEN AccText(d)
                    ELSE Blank]
NavigationRows(d) ==
    [r \in Rows |-> IF r = 0 THEN HomeDirText(d) ELSE IF r = 1 THEN HomeDistText(d)
                    ELSE IF r = 2 THEN SpeedText(d) ELSE IF r = 3 THEN BattText(d)
                    ELSE Blank]
MainMenuRows(d) ==
    [r \in Rows |-> IF r = 0 THEN Label("MAIN MENU")
                    ELSE IF r = 1 THEN Item("Status", d.menuIndex = 0)
                    ELSE IF r = 2 THEN Item("Waypoints", d.menuIndex = 1)
                    ELSE IF r = 3 THEN Item("System Info", d.menuIndex = 2)
                    ELSE Item("Power Menu", d.menuIndex = 3)]
WaypointItem(d, i) ==
    Item(IF d.waypoints[i].isSet THEN "Nav WP" ELSE "Set WP X", d.menuIndex = i)
WaypointMenuRows(d) ==
    [r \in Rows |-> IF r = 0 THEN Label("WAYPOINTS")
                    ELSE IF r = 4 THEN Item("Back", d.menuIndex = 3)
                    ELSE WaypointItem(d, r - 1)]
WaypointNavRows(d) ==
    [r \in Rows |-> IF r = 0 THEN WpDirText(d, d.waypoints[d.activeWaypoint - 1])
                    ELSE IF r = 1 THEN WpDistText(d, d.waypoints[d.activeWaypoint - 1])
                    ELSE IF r = 2 THEN SpeedText(d) ELSE IF r = 3 THEN BattText(d)
                    ELSE Blank]
\* the name row of the reset screen, taken from waypoints[waypointToReset - 1]
ResetNameText(d) ==
    IF d.waypointToReset \in 1..3 /\ d.waypoints[d.waypointToReset - 1].name # ""
    THEN Label(d.waypoints[d.waypointToReset - 1].name)
    ELSE Blank
WaypointResetRows(d) ==
    [r \in Rows |-> IF r = 0 THEN <<"WAYPOINT", <<d.waypointToReset>>>>
                    ELSE IF r = 1 THEN ResetNameText(d)
                    ELSE IF r = 2 THEN Item("Navigate", d.menuIndex = 0)
                    ELSE IF r = 3 THEN Item("Reset", d.menuIndex = 1)
                    ELSE Item("Cancel", d.menuIndex = 2)]
SetWaypointRows(d) ==
    [r \in Rows |-> IF r = 0 THEN <<"SET WP", <<d.waypointToSet + 1>>>>
                    ELSE IF r = 1
                         THEN IF GpsReady(d.fix.hasValidPosition, d.fix.haveFix)
                              THEN Label("GPS Ready!") ELSE Label("Wait for GPS...")
                    ELSE IF r = 2
                         THEN IF GpsReady(d.fix.hasValidPosition, d.fix.haveFix)
                              THEN Label("Press to save")
                              ELSE <<"Sats: ", <<d.fix.totalInView>>>>
                    ELSE Blank]
SystemInfoRows(d) ==
    [r \in Rows |-> IF r = 0 THEN Label("SYSTEM INFO")
                    ELSE IF r = 1 THEN Label("FW: v1.2 Enh")
                    ELSE IF r = 2 THEN <<"Sats: ", <<d.fix.totalInView>>>>
                    ELSE IF r = 3 THEN <<"Batt: ", <<d.pct>>>>
                    ELSE Blank]
PowerMenuRows(d) ==
    [r \in Rows |-> IF r = 0 THEN Label("POWER MENU")
                    ELSE IF r = 1 THEN Item("Sleep Mode", d.menuIndex = 0)
                    ELSE IF r = 2 THEN Item("Deep Sleep", d.menuIndex = 1)
                    ELSE IF r = 3 THEN Item("Screen Off", d.menuIndex = 2)
                    ELSE Item("Back", d.menuIndex = 3)]

\* updateStatusScreen
drawStatusScreen(l, d) ==
    [DiffRow(DiffRow(DiffRow(DiffRow(ClearIf(l, ~l.prevDisplayValid),
        ~l.prevDisplayValid, 0, FixText(d), "prevFixBuf"),
        ~l.prevDisplayValid, 1, SatText(d), "prevSatBuf"),
        ~l.prevDisplayValid, 2, BattText(d), "prevBattBuf"),
        ~l.prevDisplayValid, 3, AccText(d), "prevAccBuf")
     EXCEPT !.prevDisplayValid = TRUE]

\* updateNavigationScreen (the direction row shares prevFixBuf)
drawNavigationScreen(l, d) ==
    [DiffRow(DiffRow(DiffRow(DiffRow(ClearIf(l, ~l.prevDisplayValid),
        ~l.prevDisplayValid, 0, HomeDirText(d), "prevFixBuf"),
        ~l.prevDisplayValid, 1, HomeDistText(d), "prevDistBuf"),
        ~l.prevDisplayValid, 2, SpeedText(d), "prevSpeedBuf"),
        ~l.prevDisplayValid, 3, BattText(d), "prevBattBuf")
     EXCEPT !.prevDisplayValid = TRUE]

\* updateMainMenuScreen
drawMainMenuScreen(l, d) ==
    IF l.forceScreenRedraw \/ ~l.mainMenu.screenInitialized
       \/ l.mainMenu.lastMenuIndex # d.menuIndex
    THEN [FullDraw(l, MainMenuRows(d)) EXCEPT
            !.mainMenu = [screenInitialized |-> TRUE, lastMenuIndex |-> d.menuIndex],
            !.forceScreenRedraw = FALSE]
    ELSE l

\* updateWaypointMenuScreen: lastWaypointStates always ends as the isSet
\* flags; the redraw test sees the flags stored before, inverted when forced
drawWaypointMenuScreen(l, d) ==
    IF l.forceScreenRedraw \/ ~l.waypointMenu.screenInitialized
       \/ l.waypointMenu.lastMenuIndex # d.menuIndex
       \/ \E i \in 0..2 : l.waypointMenu.lastWaypointStates[i] # d.waypoints[i].isSet
    THEN [FullDraw(l, WaypointMenuRows(d)) EXCEPT
            !.waypointMenu = [screenInitialized |-> TRUE, lastMenuIndex |-> d.menuIndex,
                              lastWaypointStates |-> [i \in 0..2 |-> d.waypoints[i].isSet]],
            !.forceScreenRedraw = FALSE]
    ELSE l

\* updateWaypointNavigationScreen: with no active waypoint it only raises
\* forceScreenRedraw (the caller sets currentScreen); otherwise the screen is
\* cleared the first time the function ever draws, and all four rows are
\* written
drawWaypointNavigationScreen(l, d) ==
    IF d.activeWaypoint = 0 THEN [l EXCEPT !.forceScreenRedraw = TRUE]
    ELSE [WriteRow(WriteRow(WriteRow(WriteRow(ClearIf(l, l.navNeedsFullRedraw),
            0, WaypointNavRows(d)[0]), 1, WaypointNavRows(d)[1]),
            2, WaypointNavRows(d)[2]), 3, WaypointNavRows(d)[3])
          EXCEPT !.navNeedsFullRedraw = FALSE]

\* updateWaypointResetScreen
drawWaypointResetScreen(l, d) ==
    IF ~l.waypointReset.screenInitialized \/ l.forceScreenRedraw
       \/ l.waypointReset.lastMenuIndex # d.menuIndex
       \/ l.waypointReset.lastWaypointToReset # d.waypointToReset
    THEN [FullDraw(l, WaypointResetRows(d)) EXCEPT
            !.waypointReset = [screenInitialized |-> TRUE, lastMenuIndex |-> d.menuIndex,
                               lastWaypointToReset |-> d.waypointToReset],
            !.forceScreenRedraw = FALSE]
    ELSE l

\* updateSetWaypointScreen: when forced, screenInitialized is reset, so the
\* redraw follows whatever lastGPSReady and lastSatCount were set to
drawSetWaypointScreen(l, d) ==
    IF l.forceScreenRedraw \/ ~l.setWaypoint.screenInitialized
       \/ GpsReady(d.fix.hasValidPosition, d.fix.haveFix) # l.setWaypoint.lastGPSReady
       \/ d.fix.totalInView # l.setWaypoint.lastSatCount
    THEN [FullDraw(l, SetWaypointRows(d)) EXCEPT
            !.setWaypoint = [screenInitialized |-> TRUE,
                             lastGPSReady |-> GpsReady(d.fix.hasValidPosition, d.fix.haveFix),
                             lastSatCount |-> d.fix.totalInView],
            !.forceScreenRedraw = FALSE]
    ELSE l

\* updateSystemInfoScreen (does not read or clear forceScreenRedraw)
drawSystemInfoScreen(l, d) ==
    IF ~l.systemInfo.screenInitialized
       \/ d.fix.totalInView # l.systemInfo.lastSatCount
       \/ d.pct # l.systemInfo.lastBattPercent
    THEN [FullDraw(l, SystemInfoRows(d)) EXCEPT
            !.systemInfo = [screenInitialized |-> TRUE,
                            lastSatCount |-> d.fix.totalInView,
                            lastBattPercent |-> d.pct]]
    ELSE l

\* updatePowerMenuScreen
drawPowerMenuScreen(l, d) ==
    IF ~l.powerMenu.screenInitialized \/ l.forceScreenRedraw
       \/ l.powerMenu.lastMenuIndex # d.menuIndex
    THEN [FullDraw(l, PowerMenuRows(d)) EXCEPT
            !.powerMenu = [screenInitialized |-> TRUE, lastMenuIndex |-> d.menuIndex],
            !.forceScreenRedraw = FALSE]
    ELSE l

\* the switch of updateLCD
drawScreen(l, d) ==
    IF d.currentScreen = SCREEN_STATUS THEN drawStatusScreen(l, d)
    ELSE IF d.currentScreen = SCREEN_NAVIGATION THEN drawNavigationScreen(l, d)
    ELSE IF d.currentScreen = SCREEN_MAIN_MENU THEN drawMainMenuScreen(l, d)
    ELSE IF d.currentScreen = SCREEN_WAYPOINT_MENU THEN drawWaypointMenuScreen(l, d)
    ELSE IF d.currentScreen \in NavScreens THEN drawWaypointNavigationScreen(l, d)
    ELSE IF d.currentScreen = SCREEN_SET_WAYPOINT THEN drawSetWaypointScreen(l, d)
    ELSE IF d.currentScreen = SCREEN_WAYPOINT_RESET THEN drawWaypointResetScreen(l, d)
    ELSE IF d.currentScreen = SCREEN_SYSTEM_INFO THEN drawSystemInfoScreen(l, d)
    ELSE IF d.currentScreen = SCREEN_POWER_MENU THEN drawPowerMenuScreen(l, d)
    ELSE drawStatusScreen(l, d)

\* the head of updateLCD: a screen other than the one drawn last invalidates
\* the row buffers and raises forceScreenRedraw
screenSwitch(l, screen) ==
    IF screen # l.lastDisplayedScreen
    THEN [l EXCEPT !.prevDisplayValid = FALSE,
                   !.forceScreenRedraw = TRUE,
                   !.lastDisplayedScreen = screen]
    ELSE l

\* the display members after updateLCD(pct_cal) at millis() = t; d carries
\* pct_cal and the members the screens read
drawLCD(l, d, t) ==
    drawScreen(screenSwitch([l EXCEPT !.pass = [at |-> t, pct |-> d.pct,
                                                 cleared |-> FALSE, written |-> {}]],
                            d.currentScreen), d)

\* the panel after the messages checkButton draws itself in the power menu
SleepPanel ==
    [r \in Rows |-> IF r = 0 THEN Label("ENTERING SLEEP")
                    ELSE IF r = 1 THEN Label("Press to wake") ELSE Blank]
DeepSleepPanel ==
    [r \in Rows |-> IF r = 0 THEN Label("DEEP SLEEP")
                    ELSE IF r = 1 THEN Label("Hold button")
                    ELSE IF r = 2 THEN Label("to wake up") ELSE Blank]
pressPanel(panel, screen, idx) ==
    IF screen # SCREEN_POWER_MENU THEN panel
    ELSE IF idx = 0 THEN SleepPanel
    ELSE IF idx = 1 THEN DeepSleepPanel
    ELSE IF idx = 2 THEN BlankPanel
    ELSE panel

(***************************************************************************)
(* State                                                                   *)
(***************************************************************************)
VARIABLES
    pc,                 \* position of the device: "begin", "button", "serial", "asleep"
    now,                \* millis()
    boots,              \* number of restarts so far
    fix,                \* satellite counts, fix flag, HDOP, position, home
    lineBuf, linePos,   \* NMEA line accumulation
    waypoints, activeWaypoint, waypointToSet, waypointToReset,
    currentScreen, menuIndex,
    lastButtonState, buttonPressStart, longPressHandled,
    lastButtonPress, lastActivity,
    eeprom,             \* the persisted bytes 0..EEPROM_USED-1
    buttonEvent,        \* what the last checkButton call did
    prevScreen,         \* currentScreen when the last checkButton call started
    press,              \* bookkeeping of the latest HIGH-to-LOW transition
    calls,              \* lines handed to processNMEALine by the last drain
    callsAt,            \* bytes read by the last drain when each call was made
    fed,                \* the bytes the last drain read
    wpAtRestart,        \* the in-memory waypoints when the device last restarted
    batt,               \* battery buffer and charging members
    lcd,                \* display members, panel content, the last render pass
    battLog,            \* the last battery sample and what it returned
    presses,            \* how many press handlers have run on their own
    probe               \* the last evaluation of a function on its own

memVars == <<fix, lineBuf, linePos, waypoints, activeWaypoint, waypointToSet,
             waypointToReset, currentScreen, menuIndex, lastButtonState,
             buttonPressStart, longPressHandled, lastButtonPress, lastActivity>>
uiVars == <<waypoints, activeWaypoint, waypointToSet, waypointToReset,
            currentScreen, menuIndex, eeprom>>
btnVars == <<lastButtonState, buttonPressStart, longPressHandled,
             lastButtonPress, lastActivity>>
ghostVars == <<buttonEvent, prevScreen, press, calls, callsAt, fed, wpAtRestart>>
dispVars == <<batt, lcd, battLog, presses, probe>>
vars == <<pc, now, boots, memVars, eeprom, ghostVars, dispVars>>

\* the fix record the constructor leaves
FixInit ==
    [gpsCount |-> 0, glonassCount |-> 0, beidouCount |-> 0, galileoCount |-> 0,
     qzssCount |-> 0, totalInView |-> 0, haveFix |-> FALSE, lastHDOP |-> HDOP_INIT,
     homeEstablished |-> FALSE, homeLat |-> 0, homeLon |-> 0,
     currentLat |-> 0, currentLon |-> 0, hasValidPosition |-> FALSE]

\* no battery sample taken yet
BattLogInit ==
    [voltage |-> 0, at |-> 0, raw |-> 0, pct |-> 0, recent |-> <<>>,
     samples |-> <<>>, evaluated |-> FALSE, changedAt |-> 0 - 1]

PressInit ==
    [at |-> 0 - 1, accepted |-> FALSE, longs |-> 0, shorts |-> 0,
     heldLong |-> FALSE, soonAfterPrev |-> FALSE, prevActions |-> 0]

\* the members as HTITTracker::HTITTracker() and the static initialisers of
\* checkButton leave them
Constructed ==
    /\ fix = FixInit
    /\ lineBuf = <<>>
    /\ linePos = 0
    /\ waypoints = [i \in WpIdx |-> UnsetWaypoint]
    /\ activeWaypoint = 0
    /\ waypointToSet = 0
    /\ waypointToReset = 0
    /\ currentScreen = SCREEN_MAIN_MENU
    /\ menuIndex = 0
    /\ lastButtonState = HIGH
    /\ buttonPressStart = 0
    /\ longPressHandled = FALSE
    /\ lastButtonPress = 0
    /\ lastActivity = 0

\* EEPROM images the device can be powered up with for the first time
ErasedImage == [a \in 0..(EEPROM_USED - 1) |-> 255]
\* an image whose magic was damaged after waypoints had been stored
StaleImage ==
    [saveWaypointsToEEPROM(ErasedImage,
        [i \in WpIdx |-> [lat |-> 28870380, lon |-> 6910000, isSet |-> TRUE,
                          name |-> WpName(i)]])
     EXCEPT ![ADDR_MAGIC] = 0]
InitialImages == {ErasedImage, StaleImage}

Init ==
    /\ pc = "begin"
    /\ now = 0
    /\ boots = 0
    /\ Constructed
    /\ eeprom \in InitialImages
    /\ buttonEvent = "None"
    /\ prevScreen = SCREEN_MAIN_MENU
    /\ press = PressInit
    /\ calls = <<>>
    /\ callsAt = <<>>
    /\ fed = <<>>
    /\ wpAtRestart = [i \in WpIdx |-> UnsetWaypoint]
    /\ batt = BattInit
    /\ lcd = LcdInit
    /\ battLog = BattLogInit
    /\ presses = 0
    /\ probe = [kind |-> "none"]

(***************************************************************************)
(* Operations                                                              *)
(***************************************************************************)
\* begin(): the part that touches the modelled state is the waypoint load
Begin ==
    /\ pc = "begin"
    /\ waypoints' \in LoadOutcomes(eeprom)
    /\ eeprom' = LoadImage(eeprom)
    /\ pc' = "button"
    /\ UNCHANGED <<now, boots, fix, lineBuf, linePos, activeWaypoint, waypointToSet,
                   waypointToReset, currentScreen, menuIndex, btnVars, ghostVars,
                   dispVars>>

\* checkButton() with digitalRead() = cur and millis() = t
CheckButton(cur, t) ==
    LET accept == PressAccepted(lastButtonState, cur, t, lastButtonPress)
        start1 == IF accept THEN t ELSE buttonPressStart
        hand1  == IF accept THEN FALSE ELSE longPressHandled
        long   == LongPressFires(cur, hand1, start1, t)
        hand2  == IF long THEN TRUE ELSE hand1
        rel    == ReleaseSeen(lastButtonState, cur, hand2)
        short  == rel /\ ShortPressFires(start1, t)
        u      == [currentScreen |-> currentScreen, menuIndex |-> menuIndex,
                   waypointToSet |-> waypointToSet, waypointToReset |-> waypointToReset,
                   activeWaypoint |-> activeWaypoint, waypoints |-> waypoints,
                   eeprom |-> eeprom, power |-> "run"]
        v      == IF long THEN longPress(u)
                  ELSE IF short
                       THEN shortPress(u, fix.hasValidPosition, fix.haveFix,
                                       fix.currentLat, fix.currentLon)
                       ELSE u
        edge   == lastButtonState /\ ~cur
    IN  /\ pc = "button"
        /\ buttonPressStart' = IF rel THEN 0 ELSE start1
        /\ longPressHandled' = hand2
        /\ lastButtonPress' = IF short THEN t ELSE lastButtonPress
        /\ lastActivity' = IF long \/ short THEN t ELSE lastActivity
        /\ lastButtonState' = cur
        /\ currentScreen' = v.currentScreen
        /\ menuIndex' = v.menuIndex
        /\ waypointToSet' = v.waypointToSet
        /\ waypointToReset' = v.waypointToReset
        /\ activeWaypoint' = v.activeWaypoint
        /\ waypoints' = v.waypoints
        /\ eeprom' = v.eeprom
        /\ now' = IF v.power = "lightSleep" THEN t + 1000 ELSE t
        /\ pc' = IF v.power = "deepSleep" THEN "asleep" ELSE "serial"
        /\ buttonEvent' = IF long THEN "LongPress" ELSE IF short THEN "ShortPress" ELSE "None"
        /\ prevScreen' = currentScreen
        /\ press' = IF edge
                    THEN [at |-> t, accepted |-> accept, longs |-> 0, shorts |-> 0,
                          heldLong |-> FALSE,
                          soonAfterPrev |-> press.at >= 0 /\ t - press.at < DEBOUNCE_MS,
                          prevActions |-> press.longs + press.shorts]
                    ELSE [press EXCEPT
                            !.longs = IF long THEN @ + 1 ELSE @,
                            !.shorts = IF short THEN @ + 1 ELSE @,
                            !.heldLong = @ \/ (~cur /\ press.at >= 0
                                               /\ t - press.at > LONG_PRESS_MS)]
        /\ lcd' = IF short
                  THEN [lcd EXCEPT !.panel = pressPanel(@, currentScreen, menuIndex)]
                  ELSE lcd
        /\ UNCHANGED <<boots, fix, lineBuf, linePos, calls, callsAt, fed, wpAtRestart,
                       batt, battLog, presses, probe>>

\* update() after checkButton: the drain loop over the bytes buffered by the
\* serial port, then the display refresh when lcdDue says that LCD_INTERVAL
\* has elapsed since the last one
Serial(bytes, lcdDue) ==
    /\ pc = "serial"
    /\ \E r \in {drain([lineBuf |-> lineBuf, linePos |-> linePos, fix |-> fix,
                         calls |-> <<>>, callsAt |-> <<>>, seen |-> 0], bytes)} :
          /\ lineBuf' = r.lineBuf
          /\ linePos' = r.linePos
          /\ fix' = r.fix
          /\ calls' = r.calls
          /\ callsAt' = r.callsAt
    /\ fed' = bytes
    /\ currentScreen' = IF lcdDue THEN updateLCD(currentScreen, activeWaypoint)
                       ELSE currentScreen
    /\ pc' = "button"
    /\ UNCHANGED <<now, boots, waypoints, activeWaypoint, waypointToSet,
                   waypointToReset, menuIndex, eeprom, btnVars, buttonEvent,
                   prevScreen, press, wpAtRestart, dispVars>>

\* the dispatch of checkButton on its own: a long press (long) or a short
\* press has been recognised and its handler runs, including the messages
\* the power menu draws itself
Press(long) ==
    /\ pc = "button"
    /\ \E v \in {IF long
                 THEN longPress([currentScreen |-> currentScreen, menuIndex |-> menuIndex,
                                 waypointToSet |-> waypointToSet,
                                 waypointToReset |-> waypointToReset,
                                 activeWaypoint |-> activeWaypoint,
                                 waypoints |-> waypoints, eeprom |-> eeprom,
                                 power |-> "run"])
                 ELSE shortPress([currentScreen |-> currentScreen, menuIndex |-> menuIndex,
                                  waypointToSet |-> waypointToSet,
                                  waypointToReset |-> waypointToReset,
                                  activeWaypoint |-> activeWaypoint,
                                  waypoints |-> waypoints, eeprom |-> eeprom,
                                  power |-> "run"],
                                 fix.hasValidPosition, fix.haveFix,
                                 fix.currentLat, fix.currentLon)} :
          /\ currentScreen' = v.currentScreen
          /\ menuIndex' = v.menuIndex
          /\ waypointToSet' = v.waypointToSet
          /\ waypointToReset' = v.waypointToReset
          /\ activeWaypoint' = v.activeWaypoint
          /\ waypoints' = v.waypoints
          /\ eeprom' = v.eeprom
          /\ pc' = IF v.power = "deepSleep" THEN "asleep" ELSE "button"
    /\ lcd' = IF long THEN lcd
              ELSE [lcd EXCEPT !.panel = pressPanel(@, currentScreen, menuIndex)]
    /\ buttonEvent' = IF long THEN "LongPress" ELSE "ShortPress"
    /\ prevScreen' = currentScreen
    /\ presses' = presses + 1
    /\ UNCHANGED <<now, boots, fix, lineBuf, linePos, btnVars, press, calls, callsAt,
                   fed, wpAtRestart, batt, battLog, probe>>

\* processNMEALine on its own: one complete line has been assembled
Line(line) ==
    /\ pc = "button"
    /\ fix' = processNMEALine(fix, line)
    /\ calls' = <<line>>
    /\ UNCHANGED <<pc, now, boots, lineBuf, linePos, uiVars, btnVars, buttonEvent,
                   prevScreen, press, callsAt, fed, wpAtRestart, dispVars>>

\* variant of LcdDue that lets every iteration render
LcdDueAlways(t, last) == TRUE

\* the test of the once-per-second block of update(): last is lastLCDupdate
LcdDue(t, last) == t - last >= LCD_INTERVAL

\* the once-per-second block of update() at millis() = t with the calibrated
\* battery voltage vb: updateChargingStatus, getStableBatteryPercent, then
\* updateLCD with the percentage returned
RenderPass(vb, t) ==
    /\ \E b \in {storeReading(updateChargingStatus(batt, vb, t), voltageToPercent(vb))} :
          /\ batt' = b
          /\ \E pct \in {stableResult(b, voltageToPercent(vb))} :
                /\ lcd' = drawLCD(lcd, [currentScreen |-> currentScreen,
                                        menuIndex |-> menuIndex,
                                        waypoints |-> waypoints,
                                        activeWaypoint |-> activeWaypoint,
                                        waypointToSet |-> waypointToSet,
                                        waypointToReset |-> waypointToReset,
                                        fix |-> fix, pct |-> pct], t)
                /\ battLog' = [voltage |-> vb, at |-> t,
                               raw |-> voltageToPercent(vb), pct |-> pct,
                               recent |-> IF Len(battLog.recent) < BATTERY_SAMPLES
                                          THEN Append(battLog.recent, voltageToPercent(vb))
                                          ELSE Append(Tail(battLog.recent),
                                                      voltageToPercent(vb)),
                               samples |-> IF Len(battLog.samples) < 3
                                           THEN Append(battLog.samples, <<vb, t>>)
                                           ELSE Append(Tail(battLog.samples), <<vb, t>>),
                               evaluated |-> t - batt.lastChargingCheck >= CHARGING_INTERVAL,
                               changedAt |-> IF b.isCharging # batt.isCharging
                                             THEN t ELSE battLog.changedAt]
    /\ currentScreen' = updateLCD(currentScreen, activeWaypoint)

\* the block as an operation of its own, when it is due
Refresh(vb, t) ==
    /\ pc = "button"
    /\ t >= now
    /\ LcdDue(t, lcd.pass.at)
    /\ now' = t
    /\ RenderPass(vb, t)
    /\ UNCHANGED <<pc, boots, fix, lineBuf, linePos, waypoints, activeWaypoint,
                   waypointToSet, waypointToReset, menuIndex, eeprom, btnVars,
                   ghostVars, presses, probe>>

\* the drain loop of update(), as the step between the button sample and the
\* once-per-second block
Drain(bytes) ==
    /\ pc = "serial"
    /\ \E r \in {drain([lineBuf |-> lineBuf, linePos |-> linePos, fix |-> fix,
                         calls |-> <<>>, callsAt |-> <<>>, seen |-> 0], bytes)} :
          /\ lineBuf' = r.lineBuf
          /\ linePos' = r.linePos
          /\ fix' = r.fix
          /\ calls' = r.calls
          /\ callsAt' = r.callsAt
    /\ fed' = bytes
    /\ pc' = "lcd"
    /\ UNCHANGED <<now, boots, uiVars, btnVars, buttonEvent, prevScreen, press,
                   wpAtRestart, dispVars>>

\* the end of update(): the once-per-second block when it is due
Display(vb) ==
    /\ pc = "lcd"
    /\ pc' = "button"
    /\ IF LcdDue(now, lcd.pass.at)
       THEN RenderPass(vb, now)
       ELSE UNCHANGED <<batt, lcd, battLog, currentScreen>>
    /\ UNCHANGED <<now, boots, fix, lineBuf, linePos, waypoints, activeWaypoint,
                   waypointToSet, waypointToReset, menuIndex, eeprom, btnVars,
                   ghostVars, presses, probe>>

\* A function on its own is evaluated once in a behaviour.
\* voltageToPercent for a voltage and the next one up
ProbePercent(vb) ==
    /\ probe.kind = "none"
    /\ probe' = [kind |-> "percent", vb |-> vb, pct |-> voltageToPercent(vb),
                 next |-> voltageToPercent(vb + 1)]
    /\ UNCHANGED <<pc, now, boots, memVars, eeprom, ghostVars, batt, lcd, battLog,
                   presses>>

\* getCardinalDirection on its own, for one bearing in two tracker states
ProbeCardinal(f, g, bearing) ==
    /\ probe.kind = "none"
    /\ probe' = [kind |-> "cardinal", bearing |-> bearing,
                 haveFix |-> f.haveFix, homeEstablished |-> f.homeEstablished,
                 label |-> getCardinalDirection(f.haveFix, f.homeEstablished, bearing),
                 otherFix |-> g.haveFix, otherHome |-> g.homeEstablished,
                 otherLabel |-> getCardinalDirection(g.haveFix, g.homeEstablished,
                                                     bearing)]
    /\ UNCHANGED <<pc, now, boots, memVars, eeprom, ghostVars, batt, lcd, battLog,
                   presses>>

\* the fix members with the current position p and the home position q
Between(p, q) ==
    [FixInit EXCEPT !.haveFix = TRUE, !.hasValidPosition = TRUE,
                    !.homeEstablished = TRUE,
                    !.currentLat = p[1], !.currentLon = p[2],
                    !.homeLat = q[1], !.homeLon = q[2]]

\* waypoint 1 set at position q
WaypointAt(q) ==
    [i \in WpIdx |-> IF i = 0 THEN [UnsetWaypoint EXCEPT !.isSet = TRUE,
                                                         !.lat = q[1], !.lon = q[2]]
                     ELSE UnsetWaypoint]

\* the two distance functions on their own, from p to q, from q to p and
\* from p to p
ProbeDistance(p, q) ==
    /\ probe.kind = "none"
    /\ probe' = [kind |-> "distance", from |-> p, to |-> q,
                 home |-> calculateDistanceToHome(Between(p, q)),
                 homeBack |-> calculateDistanceToHome(Between(q, p)),
                 homeSelf |-> calculateDistanceToHome(Between(p, p)),
                 wp |-> calculateDistanceToWaypoint(Between(p, p), WaypointAt(q), 0),
                 wpBack |-> calculateDistanceToWaypoint(Between(q, q), WaypointAt(p), 0),
                 wpSelf |-> calculateDistanceToWaypoint(Between(p, q), WaypointAt(p), 0)]
    /\ UNCHANGED <<pc, now, boots, memVars, eeprom, ghostVars, batt, lcd, battLog,
                   presses>>

\* power cycle between two iterations, or wake-up from deep sleep: the
\* program starts again from the constructor, the EEPROM keeps its bytes
Restart ==
    /\ pc \in {"button", "asleep"}
    /\ boots < MaxBoots
    /\ boots' = boots + 1
    /\ wpAtRestart' = waypoints
    /\ fix' = FixInit
    /\ lineBuf' = <<>>
    /\ linePos' = 0
    /\ waypoints' = [i \in WpIdx |-> UnsetWaypoint]
    /\ activeWaypoint' = 0
    /\ waypointToSet' = 0
    /\ waypointToReset' = 0
    /\ currentScreen' = SCREEN_MAIN_MENU
    /\ menuIndex' = 0
    /\ lastButtonState' = HIGH
    /\ buttonPressStart' = 0
    /\ longPressHandled' = FALSE
    /\ lastButtonPress' = 0
    /\ lastActivity' = 0
    /\ pc' = "begin"
    /\ now' = 0
    /\ buttonEvent' = "None"
    /\ prevScreen' = SCREEN_MAIN_MENU
    /\ press' = PressInit
    /\ calls' = <<>>
    /\ callsAt' = <<>>
    /\ fed' = <<>>
    /\ batt' = BattInit
    /\ lcd' = LcdInit
    /\ battLog' = BattLogInit
    /\ UNCHANGED <<eeprom, presses, probe>>

(***************************************************************************)
(* Specifications                                                          *)
(***************************************************************************)
Terminated(line) == line \o <<"CR", "LF">>

\* Main specification: the polled loop with button samples 600 or 1200 ms
\* apart and at most one sentence buffered per iteration.
Delta == {600, 1200}
SerialInputs == {<<>>, Terminated(LineGGAFixA), Terminated(LineGGANoFix)}

Next ==
    \/ Begin
    \/ \E cur \in BOOLEAN, d \in Delta : now + d <= MaxTime /\ CheckButton(cur, now + d)
    \/ \E bytes \in SerialInputs, lcdDue \in BOOLEAN : Serial(bytes, lcdDue)

Spec == Init /\ [][Next]_vars

\* Persistence specification: the loop with power cycles.
StoreInputs == {<<>>, Terminated(LineGGAFixA)}

NextStore ==
    \/ Begin
    \/ \E cur \in BOOLEAN, d \in Delta :
          now + d <= MaxStoreTime /\ CheckButton(cur, now + d)
    \/ \E bytes \in StoreInputs, lcdDue \in BOOLEAN : Serial(bytes, lcdDue)
    \/ Restart

SpecStore == Init /\ [][NextStore]_vars

\* Fix specification: every sample sentence, singly and in pairs.
FixInputs ==
    {<<>>} \cup {Terminated(l) : l \in SampleLines}
           \cup {Terminated(LineGGANoFix) \o Terminated(LineGGAFixB),
                 Terminated(LineGGAFixB) \o Terminated(LineGGAFixA)}

NextFix ==
    \/ Begin
    \/ \E cur \in BOOLEAN, d \in Delta :
          now + d <= MaxFixTime /\ CheckButton(cur, now + d)
    \/ \E bytes \in FixInputs, lcdDue \in BOOLEAN : Serial(bytes, lcdDue)
    \/ Restart

SpecFix == Init /\ [][NextFix]_vars

\* Button specification: samples 50, 300 or 1100 ms apart, no serial data.
BtnDelta == {50, 300, 1100}

NextBtn ==
    \/ Begin
    \/ \E cur \in BOOLEAN, d \in BtnDelta :
          now + d <= MaxBtnTime /\ CheckButton(cur, now + d)
    \/ \E lcdDue \in BOOLEAN : Serial(<<>>, lcdDue)

SpecBtn == Init /\ [][NextBtn]_vars

\* Idle specification: the user presses only during the first seconds and
\* then leaves the device alone; IdleGap abbreviates a run of iterations
\* in which the button stays released.
IdleGap == 10000
IdlePressUntil == 2400

NextIdle ==
    \/ Begin
    \/ \E cur \in BOOLEAN, d \in Delta \cup {IdleGap} :
          /\ now + d <= MaxIdleTime
          /\ (cur = LOW => now + d <= IdlePressUntil)
          /\ (d = IdleGap => cur = HIGH /\ lastButtonState = HIGH)
          /\ CheckButton(cur, now + d)
    \/ \E lcdDue \in BOOLEAN : Serial(<<>>, lcdDue)

SpecIdle == Init /\ [][NextIdle]_vars

\* Line specification: the serial bytes arrive in chunks that need not end
\* at a line end, with bare CR or LF terminators, and with a line longer than
\* the buffer (three sentences whose terminators were lost).
LineOverlong == LineGGAFixA \o LineGGAFixB \o LineGGAFixA \o LineGPGSV
LineInputs ==
    {<<>>,
     Terminated(LineGPGSV),
     SubSeq(LineGGAFixA, 1, 20),
     SubSeq(LineGGAFixA, 21, Len(LineGGAFixA)) \o <<"CR">>,
     <<"LF">> \o LineRMC \o <<"LF">> \o SubSeq(LineGPGSV, 1, 6),
     Terminated(LineOverlong),
     LineOverlong}

NextLine ==
    \/ Begin
    \/ \E cur \in BOOLEAN, d \in Delta :
          now + d <= MaxLineTime /\ CheckButton(cur, now + d)
    \/ \E bytes \in LineInputs, lcdDue \in BOOLEAN : Serial(bytes, lcdDue)

SpecLine == Init /\ [][NextLine]_vars

\* Sentence specification: every kind of sentence the parser distinguishes
\* arrives, alone or with a second sentence in the same drain.
NmeaInputs ==
    {<<>>} \cup {Terminated(l) : l \in NmeaLines}
           \cup {Terminated(LineGPGSV) \o Terminated(LineGLGSV),
                 Terminated(LineGGAFixA) \o Terminated(LineGQGSV)}

NextNmea ==
    \/ Begin
    \/ \E cur \in BOOLEAN, d \in Delta :
          now + d <= MaxNmeaTime /\ CheckButton(cur, now + d)
    \/ \E bytes \in NmeaInputs, lcdDue \in BOOLEAN : Serial(bytes, lcdDue)
    \/ Restart

SpecNmea == Init /\ [][NextNmea]_vars

\* Battery specification: the once-per-second block runs 5 or 10 seconds
\* apart with the voltages of a charging battery.
BattVoltages == {4100, 4180, 4220}
BattDelta == {5000, 10000}

NextBatt ==
    \/ Begin
    \/ \E vb \in BattVoltages, d \in BattDelta :
          now + d <= MaxBattTime /\ Refresh(vb, now + d)

SpecBatt == Init /\ [][NextBatt]_vars

\* Function specification: the battery curve over MinVoltage..MaxVoltage,
\* the cardinal direction for every tenth of a degree in the tracker states
\* the sample sentences lead to, the distances between their positions.
ProbeFixes ==
    {FixInit, processNMEALine(FixInit, LineGGAFixA),
     processNMEALine(FixInit, LineGGAFixOnly),
     processNMEALine(processNMEALine(FixInit, LineGGAFixA), LineGGANoFix)}

ProbePoints ==
    {<<f.currentLat, f.currentLon>> :
        f \in {FixInit, processNMEALine(FixInit, LineGGAFixA),
               processNMEALine(FixInit, LineGGAFixB),
               processNMEALine(FixInit, LineGGANoFix),
               processNMEALine(processNMEALine(FixInit, LineGGAFixA), LineGGAFixB)}}
    \cup {<<f.homeLat + UnitsPerDegree, f.homeLon>> :
             f \in {processNMEALine(FixInit, LineGGAFixA)}}

NextMath ==
    \/ probe.kind = "none" /\ \E vb \in MinVoltage..MaxVoltage : ProbePercent(vb)
    \/ probe.kind = "none" /\ \E f \in ProbeFixes, g \in ProbeFixes, bearing \in 0..3599 :
                                ProbeCardinal(f, g, bearing)
    \/ probe.kind = "none" /\ \E p \in ProbePoints, q \in ProbePoints :
                                ProbeDistance(p, q)

SpecMath == Init /\ [][NextMath]_vars

\* Display specification: presses, sentences and display refreshes one
\* second apart, in any order.
LcdLines == {LineGGAFixA}
LcdVoltage == 3900

NextLcd ==
    \/ Begin
    \/ \E long \in BOOLEAN : presses < MaxPresses /\ Press(long)
    \/ \E line \in LcdLines : Line(line)
    \/ now + LCD_INTERVAL <= MaxLcdTime /\ Refresh(LcdVoltage, now + LCD_INTERVAL)

SpecLcd == Init /\ [][NextLcd]_vars

\* Loop specification: whole iterations of update() in their three steps,
\* with button samples 600 ms apart and, during the first MaxFeedTime
\* milliseconds, at most one sentence buffered.
LoopDelta == 600
LoopInputs == {<<>>, Terminated(LineGGAFixA)}

NextLoop ==
    \/ Begin
    \/ \E cur \in BOOLEAN :
          now + LoopDelta <= MaxLoopTime /\ CheckButton(cur, now + LoopDelta)
    \/ \E bytes \in LoopInputs :
          (bytes = <<>> \/ now <= MaxFeedTime) /\ Drain(bytes)
    \/ Display(LcdVoltage)

SpecLoop == Init /\ [][NextLoop]_vars

\* Menu specification: presses, GGA sentences (a fix with a position, a
\* no-fix report that still carries the last position, a fix report cut
\* before its position) and restarts, taken as whole operations.
UiLines == {LineGGAFixA, LineGGAHeld, LineGGAFixOnly}

NextUi ==
    \/ Begin
    \/ \E long \in BOOLEAN : presses < MaxPresses /\ Press(long)
    \/ \E line \in UiLines : Line(line)
    \/ Restart

SpecUi == Init /\ [][NextUi]_vars

(***************************************************************************)
(* Properties                                                              *)
(***************************************************************************)
\* a step that is one call of checkButton
CheckButtonStep == pc = "button" /\ pc' \in {"serial", "asleep"}
\* a step that is one drain of the serial input
SerialStep == pc = "serial"
\* a step that restarts the device
RestartStep == pc # "begin" /\ pc' = "begin"

\* latitude, longitude and flag of the three waypoints
WpCore(wps) == [i \in WpIdx |-> <<wps[i].lat, wps[i].lon, wps[i].isSet>>]

AllUnsetZero(wps) == \A i \in WpIdx : wps[i].lat = 0 /\ wps[i].lon = 0 /\ ~wps[i].isSet

\* C1: after a restart, the load performed by begin() yields for every
\* waypoint the latitude, longitude and isSet flag that were in memory
\* before the restart.
C1_RoundTrip ==
    [][(pc = "begin" /\ boots > 0) => WpCore(waypoints') = WpCore(wpAtRestart)]_vars

\* C2: a load that finds a wrong magic leaves all three waypoints unset with
\* zero coordinates and rewrites the store with the sentinel, so that a load
\* of the rewritten store takes the valid-magic path, changes nothing in the
\* store and again yields all three waypoints unset.
C2_SelfHealing ==
    [][(pc = "begin" /\ ~MagicValid(eeprom)) =>
         /\ AllUnsetZero(waypoints')
         /\ MagicValid(eeprom')
         /\ LoadImage(eeprom') = eeprom'
         /\ \A w \in LoadOutcomes(eeprom') : AllUnsetZero(w)]_vars

\* the first boot has completed its load (every first-boot image has a wrong magic)
C2_Witness ==
    pc = "button" /\ boots = 0 /\ now = 0 /\ MagicValid(eeprom) /\ AllUnsetZero(waypoints)

\* a "$GNGGA" line that reports a fix and yields a position
Establishing(line) ==
    /\ HasPrefix(line, PfxGNGGA)
    /\ EffectOf(line).fixQual > 0
    /\ EffectOf(line).pos.ok

FirstEstablishing(ls) ==
    ls[CHOOSE i \in DOMAIN ls : Establishing(ls[i]) /\ \A j \in 1..(i - 1) : ~Establishing(ls[j])]

\* C3: within one power cycle home is established exactly once: it becomes
\* established in exactly the step that processes the first "$GNGGA" line
\* with fix quality > 0 and a parsed position, it takes that line's position,
\* and afterwards no step other than a restart changes homeLat, homeLon or
\* homeEstablished.
C3_HomeOnce ==
    [][/\ (fix.homeEstablished /\ ~RestartStep) =>
             /\ fix'.homeEstablished
             /\ fix'.homeLat = fix.homeLat
             /\ fix'.homeLon = fix.homeLon
       /\ ~fix.homeEstablished =>
             /\ fix'.homeEstablished <=>
                   (SerialStep /\ \E i \in DOMAIN calls' : Establishing(calls'[i]))
             /\ fix'.homeEstablished =>
                   /\ fix'.homeLat = EffectOf(FirstEstablishing(calls')).pos.lat
                   /\ fix'.homeLon = EffectOf(FirstEstablishing(calls')).pos.lon]_vars

\* home is established and a later fix report carried a different position
C3_Witness ==
    /\ fix.homeEstablished /\ fix.haveFix /\ fix.hasValidPosition
    /\ fix.currentLat # fix.homeLat
    /\ currentScreen # SCREEN_MAIN_MENU

\* C4: at the end of every loop iteration, a screen other than the main
\* menu has seen a button event within the last 30 s (otherwise the
\* timeout has returned the UI to the main menu).
C4_InactivityTimeout ==
    (pc = "button" /\ currentScreen # SCREEN_MAIN_MENU)
        => now - lastActivity <= SCREEN_TIMEOUT_MS

\* C5: when a HIGH-to-LOW transition follows the previous one by less than
\* 200 ms, the two presses together perform at most one action.
C5_Debounce ==
    press.soonAfterPrev => press.prevActions + press.longs + press.shorts <= 1

\* a press that acted, followed within 200 ms by a second press that has
\* been released again
C5_Witness ==
    /\ press.soonAfterPrev /\ press.prevActions = 1
    /\ lastButtonState = HIGH /\ ~press.accepted

\* C6: an accepted press that is still held more than 1000 ms after its
\* start has performed exactly one LongPress action and no ShortPress
\* action, during the hold and after the release.
C6_SingleLongPress ==
    (press.accepted /\ press.heldLong) => (press.longs = 1 /\ press.shorts = 0)

\* an accepted press held past the threshold, sampled LOW again after the
\* long press fired, and then released
C6_Witness ==
    /\ press.accepted /\ press.heldLong /\ lastButtonState = HIGH
    /\ now - press.at > 2 * LONG_PRESS_MS

\* item count of each menu screen
ItemCount(screen) ==
    IF screen = SCREEN_WAYPOINT_RESET THEN 3 ELSE 4

\* C7: on a menu screen the menu index designates one of the screen's items.
C7_MenuIndexBound ==
    currentScreen \in MenuScreens =>
        (menuIndex >= 0 /\ menuIndex < ItemCount(currentScreen))

C10_NoSaveWithoutFix ==
    [][(CheckButtonStep /\ currentScreen = SCREEN_SET_WAYPOINT) =>
         /\ (buttonEvent' = "ShortPress" /\ ~(fix.haveFix /\ fix.hasValidPosition)) =>
               UNCHANGED <<waypoints, eeprom, currentScreen, menuIndex, waypointToSet>>
         /\ waypoints' # waypoints => (fix.haveFix /\ fix.hasValidPosition)]_vars

\* a short press was made on the set-waypoint screen while a position was
\* held but the receiver reported no fix
C10_Witness ==
    /\ buttonEvent = "ShortPress" /\ prevScreen = SCREEN_SET_WAYPOINT
    /\ pc = "serial" /\ fix.hasValidPosition /\ ~fix.haveFix
    /\ currentScreen = SCREEN_SET_WAYPOINT

\* the double stored for waypoint i: latitude at its base address, longitude
\* eight bytes further
StoredLat(e, i) == BytesDouble(EepromGet(e, 4 + 20 * i, 8))
StoredLon(e, i) == BytesDouble(EepromGet(e, 12 + 20 * i, 8))

C13_ScreenTour ==
    [][(CheckButtonStep /\ buttonEvent' = "ShortPress") =>
         /\ currentScreen = SCREEN_STATUS => currentScreen' = SCREEN_NAVIGATION
         /\ currentScreen = SCREEN_NAVIGATION => currentScreen' = SCREEN_MAIN_MENU]_vars

\* C14: Back in the waypoint menu returns to the main menu with the
\* Waypoints item (index 1) highlighted, and Back in the power menu returns
\* to the main menu with the Power Menu item (index 3) highlighted.
C14_BackMemory ==
    [][(CheckButtonStep /\ buttonEvent' = "ShortPress" /\ menuIndex = 3) =>
         /\ currentScreen = SCREEN_WAYPOINT_MENU =>
               (currentScreen' = SCREEN_MAIN_MENU /\ menuIndex' = 1)
         /\ currentScreen = SCREEN_POWER_MENU =>
               (currentScreen' = SCREEN_MAIN_MENU /\ menuIndex' = 3)]_vars

\* line terminators
IsTerm(c) == c = "CR" \/ c = "LF"

\* indices at which a maximal run of non-terminator bytes of s starts
RunStarts(s) ==
    {i \in DOMAIN s : ~IsTerm(s[i]) /\ (i = 1 \/ IsTerm(s[i - 1]))}

\* index of the last byte of the run that starts at i
RunEnd(s, i) ==
    CHOOSE j \in i..Len(s) :
        /\ \A k \in i..j : ~IsTerm(s[k])
        /\ (j = Len(s) \/ IsTerm(s[j + 1]))

\* start of the n-th run that is followed by a terminator
NthCompleteStart(s, n) ==
    CHOOSE i \in RunStarts(s) :
        /\ RunEnd(s, i) < Len(s)
        /\ Cardinality({k \in RunStarts(s) : k < i}) = n - 1

\* the maximal non-empty runs of non-terminator bytes of s that are followed
\* by a terminator, in order
CompleteRuns(s) ==
    [n \in 1..Cardinality({i \in RunStarts(s) : RunEnd(s, i) < Len(s)}) |->
        SubSeq(s, NthCompleteStart(s, n), RunEnd(s, NthCompleteStart(s, n)))]

\* the run at the end of s that no terminator has closed yet
PendingRun(s) ==
    IF s = <<>> \/ IsTerm(s[Len(s)]) THEN <<>>
    ELSE SubSeq(s, CHOOSE i \in RunStarts(s) : RunEnd(s, i) = Len(s), Len(s))

\* the fix record after the lines ls were processed in order
RECURSIVE ProcessAll(_, _)
ProcessAll(f, ls) ==
    IF ls = <<>> THEN f ELSE ProcessAll(processNMEALine(f, Head(ls)), Tail(ls))

FitsBuffer(l) == Len(l) <= 127

\* C15: a line of more than 127 bytes is not passed to processNMEALine: the
\* lines a drain passes are the terminated runs of at most 127 bytes of the
\* pending bytes followed by the bytes read (checked when the pending bytes
\* are themselves not yet at the limit).
C15_OverflowDiscarded ==
    [][(SerialStep /\ linePos < 127) =>
         calls' = SelectSeq(CompleteRuns(lineBuf \o fed'), FitsBuffer)]_vars

\* C16: the lines a drain passes to processNMEALine are exactly the
\* terminated maximal non-empty runs of non-terminator bytes, in arrival
\* order; each call is made when the terminator of its run has been read and
\* no later byte; the fix record is the result of processing them in order;
\* what stays in the buffer is the unterminated run at the end, so that
\* linePos was 0 after the last call.
C16_LinesInOrder ==
    [][(SerialStep /\ linePos < 127) =>
         /\ calls' = CompleteRuns(lineBuf \o fed')
         /\ Len(callsAt') = Len(calls')
         /\ \A n \in DOMAIN callsAt' :
               callsAt'[n] + Len(lineBuf)
                  = RunEnd(lineBuf \o fed', NthCompleteStart(lineBuf \o fed', n)) + 1
         /\ fix' = ProcessAll(fix, CompleteRuns(lineBuf \o fed'))
         /\ lineBuf' = PendingRun(lineBuf \o fed')
         /\ linePos' = Len(lineBuf')]_vars

\* C17: in every reachable state totalInView is the sum of the five
\* constellation counts.
C17_TotalIsSum ==
    fix.totalInView = fix.gpsCount + fix.glonassCount + fix.beidouCount
                      + fix.galileoCount + fix.qzssCount

\* two constellations have reported satellites and the total is their sum
C17_Witness ==
    /\ fix.gpsCount = 8
    /\ fix.glonassCount = 5
    /\ fix.totalInView = 13

\* positions of the commas of a line
CommaPositions(l) == {i \in DOMAIN l : l[i] = ","}

\* position of the n-th comma of a line that has at least n commas
NthComma(l, n) ==
    CHOOSE i \in CommaPositions(l) : Cardinality({j \in CommaPositions(l) : j < i}) = n - 1

\* the text from the start of the n-th comma-delimited field (n > 1) to the
\* end of the line; empty when the line has fewer than n - 1 commas
FromField(l, n) ==
    IF Cardinality(CommaPositions(l)) < n - 1 THEN <<>>
    ELSE SubSeq(l, NthComma(l, n - 1) + 1, Len(l))

\* length of the run of decimal digits at the start of t
DigitPrefixLen(t) ==
    CHOOSE n \in 0..Len(t) :
        /\ \A k \in 1..n : IsDigit(t[k])
        /\ (n = Len(t) \/ ~IsDigit(t[n + 1]))

\* value of a sequence of decimal digits
RECURSIVE Decimal(_)
Decimal(t) ==
    IF t = <<>> THEN 0
    ELSE 10 * Decimal(SubSeq(t, 1, Len(t) - 1)) + (Ord(t[Len(t)]) - 48)

\* the integer written at the start of t (0 when there is none)
Unsigned(t) == Decimal(SubSeq(t, 1, DigitPrefixLen(t)))
IntegerAt(t) ==
    IF t # <<>> /\ t[1] = "-" THEN 0 - Unsigned(Tail(t)) ELSE Unsigned(t)

\* the last line of ls that starts with pfx
HasLine(ls, pfx) == \E i \in DOMAIN ls : HasPrefix(ls[i], pfx)
LastLine(ls, pfx) ==
    ls[CHOOSE i \in DOMAIN ls :
          /\ HasPrefix(ls[i], pfx)
          /\ \A j \in (i + 1)..Len(ls) : ~HasPrefix(ls[j], pfx)]

\* the integer in the 7th comma-delimited field of a line; for the sample
\* sentences it is worked out once
FieldSeven(l) == IntegerAt(FromField(l, 7))
FieldSevenTable == [l \in NmeaLines |-> FieldSeven(l)]
QualityField(l) == IF l \in NmeaLines THEN FieldSevenTable[l] ELSE FieldSeven(l)

\* C18: after a "$GNGGA" line haveFix is true exactly if the integer in the
\* 7th comma-delimited field (0 when the field is missing) is greater than
\* 0; a drain that passes no "$GNGGA" line leaves haveFix unchanged.
C18_HaveFixIsQuality ==
    [][SerialStep =>
         IF HasLine(calls', PfxGNGGA)
         THEN fix'.haveFix <=> QualityField(LastLine(calls', PfxGNGGA)) > 0
         ELSE fix'.haveFix = fix.haveFix]_vars

\* a "$GNGGA" line whose 7th field is positive was the last line processed
C18_Witness ==
    /\ calls # <<>>
    /\ HasPrefix(calls[Len(calls)], PfxGNGGA)
    /\ QualityField(calls[Len(calls)]) > 0
    /\ fix.haveFix

\* the 9th comma-delimited field up to its closing comma
HdopField(l) ==
    LET rest == FromField(l, 9)
    IN  SubSeq(rest, 1,
               CHOOSE n \in 0..Len(rest) :
                   /\ \A k \in 1..n : rest[k] # ","
                   /\ (n = Len(rest) \/ rest[n + 1] = ","))

\* the decimal number written in t, in hundredths
Hundredths(t) ==
    LET n == DigitPrefixLen(t)
        d1 == IF n + 2 <= Len(t) /\ t[n + 1] = "." /\ IsDigit(t[n + 2])
              THEN Ord(t[n + 2]) - 48 ELSE 0
        d2 == IF n + 3 <= Len(t) /\ t[n + 1] = "." /\ IsDigit(t[n + 2]) /\ IsDigit(t[n + 3])
              THEN Ord(t[n + 3]) - 48 ELSE 0
    IN  100 * Unsigned(t) + 10 * d1 + d2

\* the HDOP a line carries, in hundredths: that of a "$GNGGA" line whose
\* HDOP field holds a value strictly between 0 and 100, and 0 for any other
\* line; for the sample sentences it is worked out once
FieldNine(l) ==
    IF /\ HasPrefix(l, PfxGNGGA)
       /\ HdopField(l) # <<>>
       /\ Hundredths(HdopField(l)) > 0
       /\ Hundredths(HdopField(l)) < 10000
    THEN Hundredths(HdopField(l))
    ELSE 0
FieldNineTable == [l \in NmeaLines |-> FieldNine(l)]
CarriedHdop(l) == IF l \in NmeaLines THEN FieldNineTable[l] ELSE FieldNine(l)
CarriesHdop(l) == CarriedHdop(l) > 0

HdopInRange(h) == h > 0 /\ h < 10000

\* C19: lastHDOP is always strictly between 0 and 100 (here in hundredths);
\* a drain changes it only to the HDOP of the last "$GNGGA" line whose HDOP
\* field holds a value in that range: lines with an empty, missing or
\* out-of-range HDOP leave it as it was.
C19_HdopRange ==
    [][/\ HdopInRange(fix.lastHDOP)
       /\ HdopInRange(fix'.lastHDOP)
       /\ SerialStep =>
             IF \E i \in DOMAIN calls' : CarriesHdop(calls'[i])
             THEN fix'.lastHDOP =
                    CarriedHdop(calls'[CHOOSE i \in DOMAIN calls' :
                        /\ CarriesHdop(calls'[i])
                        /\ \A j \in (i + 1)..Len(calls') : ~CarriesHdop(calls'[j])])
             ELSE fix'.lastHDOP = fix.lastHDOP]_vars

\* a "$GNGGA" line with an empty HDOP field was processed and the HDOP of an
\* earlier sentence is still stored
C19_Witness ==
    /\ calls = <<LineGGAEmptyHdop>>
    /\ fix.lastHDOP = 150

\* the five GSV prefixes and the count each one sets
GsvCounts ==
    {<<PfxGPGSV, "gpsCount">>, <<PfxGLGSV, "glonassCount">>, <<PfxGBGSV, "beidouCount">>,
     <<PfxGAGSV, "galileoCount">>, <<PfxGQGSV, "qzssCount">>}

\* the integer after the third comma of a line, 0 when the line has fewer
\* than three commas; for the sample sentences it is worked out once
AfterThirdComma(l) ==
    IF Cardinality(CommaPositions(l)) >= 3 THEN IntegerAt(FromField(l, 4)) ELSE 0
AfterThirdCommaTable == [l \in NmeaLines |-> AfterThirdComma(l)]
InViewField(l) == IF l \in NmeaLines THEN AfterThirdCommaTable[l] ELSE AfterThirdComma(l)

\* C20: after a line with one of the five GSV prefixes the matching count is
\* the integer that follows the third comma of the line, and 0 when the line
\* has fewer than three commas.
C20_GsvCount ==
    [][SerialStep =>
         \A g \in GsvCounts :
            HasLine(calls', g[1]) =>
               fix'[g[2]] = InViewField(LastLine(calls', g[1]))]_vars

\* GLONASS had reported five satellites in view and a GSV line cut before
\* its third comma set the count to 0, while the GPS count of 8 stands
C20_Witness ==
    /\ calls = <<LineGLGSVShort>>
    /\ fix.glonassCount = 0
    /\ fix.gpsCount = 8

\* the n-th comma-delimited field of a line (n > 1), up to its closing
\* comma, the '*' of the checksum or the end of the line
FieldText(l, n) ==
    LET rest == FromField(l, n)
    IN  SubSeq(rest, 1,
               CHOOSE k \in 0..Len(rest) :
                   /\ \A j \in 1..k : rest[j] # "," /\ rest[j] # "*"
                   /\ (k = Len(rest) \/ rest[k + 1] = "," \/ rest[k + 1] = "*"))

\* t is d digits, a '.', and one or more digits
IsDegMin(t, d) ==
    /\ Len(t) >= d + 2
    /\ t[d + 1] = "."
    /\ \A k \in (1..Len(t)) \ {d + 1} : IsDigit(t[k])

\* a line whose latitude is DDMM.MMMM with N or S and whose longitude is
\* DDDMM.MMMM with E or W
WellFormedPosition(l) ==
    /\ IsDegMin(FieldText(l, 3), 4)
    /\ FieldText(l, 4) \in {<<"N">>, <<"S">>}
    /\ IsDegMin(FieldText(l, 5), 5)
    /\ FieldText(l, 6) \in {<<"E">>, <<"W">>}

\* C21: a drain whose "$GNGGA" lines all have a latitude or longitude field
\* that is not of the DDMM.MMMM / DDDMM.MMMM form with a hemisphere letter
\* yields no position: currentLat, currentLon, hasValidPosition and the home
\* point stay as they were.
C21_MalformedNoPosition ==
    [][(/\ SerialStep
        /\ \A i \in DOMAIN calls' :
              HasPrefix(calls'[i], PfxGNGGA) => ~WellFormedPosition(calls'[i]))
       => /\ fix'.currentLat = fix.currentLat
          /\ fix'.currentLon = fix.currentLon
          /\ fix'.hasValidPosition = fix.hasValidPosition
          /\ fix'.homeLat = fix.homeLat
          /\ fix'.homeLon = fix.homeLon
          /\ fix'.homeEstablished = fix.homeEstablished]_vars


(***************************************************************************)
(* Rendering                                                               *)
(***************************************************************************)

\* the once-per-second block has run in this step
RefreshStep == lcd'.pass.at # lcd.pass.at

\* what a render pass in this step is given: the members the screens read
\* and the percentage the battery filter returns in this step
PassView ==
    [currentScreen |-> currentScreen, menuIndex |-> menuIndex,
     waypoints |-> waypoints, activeWaypoint |-> activeWaypoint,
     waypointToSet |-> waypointToSet, waypointToReset |-> waypointToReset,
     fix |-> fix, pct |-> battLog'.pct]

\* the rows of the screen d.currentScreen names
ScreenRows(d) ==
    IF d.currentScreen = SCREEN_NAVIGATION THEN NavigationRows(d)
    ELSE IF d.currentScreen = SCREEN_MAIN_MENU THEN MainMenuRows(d)
    ELSE IF d.currentScreen = SCREEN_WAYPOINT_MENU THEN WaypointMenuRows(d)
    ELSE IF d.currentScreen \in NavScreens
         THEN IF d.activeWaypoint = 0 THEN BlankPanel ELSE WaypointNavRows(d)
    ELSE IF d.currentScreen = SCREEN_SET_WAYPOINT THEN SetWaypointRows(d)
    ELSE IF d.currentScreen = SCREEN_WAYPOINT_RESET THEN WaypointResetRows(d)
    ELSE IF d.currentScreen = SCREEN_SYSTEM_INFO THEN SystemInfoRows(d)
    ELSE IF d.currentScreen = SCREEN_POWER_MENU THEN PowerMenuRows(d)
    ELSE StatusRows(d)

\* the row that shows the speed estimate, which the model leaves out
SpeedRow(screen, r) ==
    r = 2 /\ (screen = SCREEN_NAVIGATION \/ screen \in NavScreens)

\* the screen to render is not the one the previous pass rendered
ScreenEntered ==
    /\ RefreshStep
    /\ currentScreen # lcd.lastDisplayedScreen
    /\ ~(currentScreen \in NavScreens /\ activeWaypoint = 0)

\* C22: the first render pass after currentScreen changed clears the whole
\* screen and writes every row of the new screen, for every screen and on
\* every entry to it.
C22_FullRedrawOnEntry ==
    [][ScreenEntered
       => /\ lcd'.pass.cleared
          /\ lcd'.pass.written = {r \in Rows : ScreenRows(PassView)[r] # Blank}]_vars

\* a render pass for the screen the previous pass rendered
SameScreenPass ==
    /\ RefreshStep
    /\ lcd.pass.at > 0
    /\ currentScreen = lcd.lastDisplayedScreen

\* C23: in a render pass with no screen transition since the previous pass
\* the screen is not cleared, and a row is written only if its desired text
\* differs from the text the row shows.
C23_DifferentialRows ==
    [][SameScreenPass
       => /\ ~lcd'.pass.cleared
          /\ \A r \in lcd'.pass.written :
                \/ SpeedRow(currentScreen, r)
                \/ ScreenRows(PassView)[r] # lcd.panel[r]]_vars

(***************************************************************************)
(* Battery filter and charging detection                                   *)
(***************************************************************************)

RECURSIVE SumSeq(_)
SumSeq(q) == IF q = <<>> THEN 0 ELSE Head(q) + SumSeq(Tail(q))

\* m is the mean of the numbers of q rounded to the nearest integer
IsRoundedMean(m, q) ==
    /\ 2 * (Len(q) * m - SumSeq(q)) <= Len(q)
    /\ 2 * (SumSeq(q) - Len(q) * m) <= Len(q)

RisingScenario ==
    /\ Len(battLog.samples) = 3
    /\ battLog.samples[1][1] = 4100
    /\ battLog.samples[2][1] = 4180
    /\ battLog.samples[3][1] = 4220
    /\ battLog.samples[2][2] - battLog.samples[1][2] >= 10000
    /\ battLog.samples[3][2] - battLog.samples[2][2] >= 10000

\* C26: after the samples 4.10 V, 4.18 V, 4.22 V taken at least 10 s apart
\* isCharging is true, whatever the uptime of the first of them.
C26_RisingSequenceCharges == RisingScenario => batt.isCharging

\* the voltage sampled in this step and its change since the last evaluation
Rising == battLog'.voltage > 4150 /\ battLog'.voltage - batt.lastBatteryVoltage > 50
Falling == battLog'.voltage < 4100 \/ battLog'.voltage - batt.lastBatteryVoltage < 0 - 20

C24_PercentMonotone ==
    probe.kind = "percent" =>
        /\ probe.pct <= probe.next
        /\ probe.pct \in 0..100
        /\ probe.vb >= 4200 => probe.pct = 100
        /\ probe.vb <= 3300 => probe.pct = 0

\* the last millivolt of the 85..95 segment
C24_Witness ==
    /\ probe.kind = "percent"
    /\ probe.vb = 4099
    /\ probe.pct = 95
    /\ probe.next = 95

\* the label of the 45-degree bucket centred on a compass point that holds
\* the bearing (tenths of a degree)
BucketLabel(bearing) ==
    <<"N", "NE", "E", "SE", "S", "SW", "W", "NW">>[((bearing + 225) % 3600) \div 450 + 1]

\* C28: with a fix and an established home getCardinalDirection returns the
\* label of the bucket [k*45 - 22.5, k*45 + 22.5) that holds the bearing;
\* 22.4 and 0 and 359.9 give N, 22.5 gives NE.
C28_CardinalBuckets ==
    probe.kind = "cardinal" /\ probe.haveFix /\ probe.homeEstablished =>
        /\ probe.label = BucketLabel(probe.bearing)
        /\ probe.bearing \in {0, 224, 3599} => probe.label = "N"
        /\ probe.bearing = 225 => probe.label = "NE"

C28_Witness ==
    /\ probe.kind = "cardinal"
    /\ probe.haveFix /\ probe.homeEstablished
    /\ probe.bearing = 225
    /\ probe.label = "NE"

C30_DistanceSymmetric ==
    probe.kind = "distance" =>
        /\ probe.home = probe.homeBack
        /\ probe.wp = probe.wpBack
        /\ probe.homeSelf = 0
        /\ probe.wpSelf = 0

C30_Witness ==
    /\ probe.kind = "distance"
    /\ probe.from # probe.to
    /\ probe.home > 0
    /\ probe.home = probe.homeBack
    /\ probe.wp = probe.home

(***************************************************************************)
(* The line buffer and the frame of sentence processing                    *)
(***************************************************************************)
\* the loop body applied to byte c in buffer state r stays inside lineBuf:
\* what it writes (the data byte, or the NUL before a call) goes to index
\* r.linePos, which is in 0..127; the position stays in 0..127 and counts
\* the live bytes; a data byte that arrives at position 127 changes nothing
ByteInBounds(r, c) ==
    \E s \in {feedByte(r, c)} :
       /\ s.linePos \in 0..(LINEBUF_SIZE - 1)
       /\ Len(s.lineBuf) = s.linePos
       /\ (s.calls # r.calls \/ s.lineBuf # r.lineBuf) =>
             r.linePos \in 0..(LINEBUF_SIZE - 1)
       /\ (r.linePos = LINEBUF_SIZE - 1 /\ c \notin {"CR", "LF"}) => s = r

\* the drain over bytes, noting in ok whether every byte stayed in bounds in
\* the buffer state the bytes before it left (as in drain, the test on
\* linePos only orders the evaluation)
RECURSIVE drainInBounds(_, _)
drainInBounds(q, bytes) ==
    IF bytes = <<>> \/ q.r.linePos < 0 THEN q
    ELSE IF Len(bytes) = 1
         THEN [r |-> feedByte(q.r, bytes[1]),
               ok |-> q.ok /\ ByteInBounds(q.r, bytes[1])]
         ELSE drainInBounds(drainInBounds(q, SubSeq(bytes, 1, Len(bytes) \div 2)),
                            SubSeq(bytes, Len(bytes) \div 2 + 1, Len(bytes)))

BytesInBounds(r, bytes) == drainInBounds([r |-> r, ok |-> TRUE], bytes).ok

\* C38: linePos is in 0..127 in every state, before and after every byte of
\* every drain; every write into lineBuf is at an index in 0..127; a data
\* byte that arrives while linePos is 127 is dropped and changes nothing.
C38_LineBufferBound ==
    [][/\ linePos' \in 0..(LINEBUF_SIZE - 1)
       /\ Len(lineBuf') = linePos'
       /\ SerialStep =>
             BytesInBounds([lineBuf |-> lineBuf, linePos |-> linePos,
                            fix |-> fix, calls |-> <<>>, callsAt |-> <<>>,
                            seen |-> 0], fed')]_vars

\* 132 unterminated bytes arrived: the buffer holds the first 127 of them
\* and the position stands at 127
C38_Witness ==
    /\ fed = LineOverlong
    /\ linePos = LINEBUF_SIZE - 1
    /\ lineBuf = SubSeq(LineOverlong, 1, LINEBUF_SIZE - 1)

\* what one call of processNMEALine with this line may change between the
\* fix records f and g: a count only with its own prefix, and nothing at all
\* when the line has none of the six prefixes
FrameOfLine(f, g, line) ==
    /\ \A c \in GsvCounts : ~HasPrefix(line, c[1]) => g[c[2]] = f[c[2]]
    /\ ((\A c \in GsvCounts : ~HasPrefix(line, c[1])) /\ ~HasPrefix(line, PfxGNGGA))
          => g = f

\* C39: a constellation's count changes only when a line with its own GSV
\* prefix is processed: lines with another GSV prefix, $GNGGA lines and
\* unrecognised lines leave it as it was, and an unrecognised line leaves
\* the whole fix record as it was (a drain passes at most two lines here).
C39_LineFrame ==
    [][SerialStep =>
         /\ Len(calls') <= 2
         /\ Len(calls') = 0 => fix' = fix
         /\ Len(calls') = 1 => FrameOfLine(fix, fix', calls'[1])
         /\ Len(calls') = 2 =>
               \E m \in {processNMEALine(fix, calls'[1])} :
                  /\ FrameOfLine(fix, m, calls'[1])
                  /\ FrameOfLine(m, fix', calls'[2])]_vars

\* with eight GPS and five GLONASS satellites in view and a fix, an RMC
\* line was processed and the record stands as it was
C39_Witness ==
    /\ calls = <<LineRMC>>
    /\ fix.gpsCount = 8
    /\ fix.glonassCount = 5
    /\ fix.haveFix

(***************************************************************************)
(* Byte layout of the waypoint store                                       *)
(***************************************************************************)
\* the documented addresses of the longitude of waypoint 1 and of the
\* coordinates of waypoints 2 and 3
ADDR_WAYPOINT1_LON == 12
ADDR_WAYPOINT2_LAT == 20
ADDR_WAYPOINT2_LON == 28
ADDR_WAYPOINT3_LAT == 36
ADDR_WAYPOINT3_LON == 44

DocumentedLat == <<ADDR_WAYPOINT1_LAT, ADDR_WAYPOINT2_LAT, ADDR_WAYPOINT3_LAT>>
DocumentedLon == <<ADDR_WAYPOINT1_LON, ADDR_WAYPOINT2_LON, ADDR_WAYPOINT3_LON>>

\* the byte ranges saveWaypointsToEEPROM writes, by field
WrittenRanges ==
    [f \in {<<"magic", 0>>} \cup ({"lat", "lon", "set"} \X WpIdx) |->
        IF f[1] = "magic" THEN ADDR_MAGIC..(ADDR_MAGIC + 3)
        ELSE IF f[1] = "lat" THEN WpBaseAddr(f[2])..(WpBaseAddr(f[2]) + 7)
        ELSE IF f[1] = "lon" THEN (WpBaseAddr(f[2]) + 8)..(WpBaseAddr(f[2]) + 15)
        ELSE {ADDR_WAYPOINT1_SET + f[2]}]

RangesDisjoint ==
    \A f, g \in DOMAIN WrittenRanges :
       f # g => WrittenRanges[f] \cap WrittenRanges[g] = {}

RangesDocumented ==
    \A i \in WpIdx :
       /\ WpBaseAddr(i) = DocumentedLat[i + 1]
       /\ WpBaseAddr(i) + 8 = DocumentedLon[i + 1]

\* every field of the image e, read from the bytes it was written to, holds
\* the value the waypoint array wps has for it
FieldsIntact(e, wps) ==
    /\ MagicValid(e)
    /\ \A i \in WpIdx :
          /\ BytesDouble(EepromGet(e, WpBaseAddr(i), 8)) = wps[i].lat
          /\ BytesDouble(EepromGet(e, WpBaseAddr(i) + 8, 8)) = wps[i].lon
          /\ e[ADDR_WAYPOINT1_SET + i] = (IF wps[i].isSet THEN 1 ELSE 0)

\* C32: in the layout saveWaypointsToEEPROM writes, the byte ranges of the
\* magic and of each waypoint's latitude, longitude and set flag are pairwise
\* disjoint and are the documented ones, so that after a save every field
\* holds the bytes written for it.
C32_LayoutDisjoint ==
    [][eeprom' # eeprom =>
         /\ RangesDisjoint
         /\ RangesDocumented
         /\ FieldsIntact(eeprom', waypoints')]_vars

\* the part of C32 that holds: magic, waypoint 1 and the latitude of
\* waypoint 2 are written where documented and overlap nothing
RangesSound ==
    /\ \A f \in {<<"magic", 0>>, <<"lat", 0>>, <<"lon", 0>>} :
          \A g \in DOMAIN WrittenRanges :
             f # g => WrittenRanges[f] \cap WrittenRanges[g] = {}
    /\ WpBaseAddr(0) = ADDR_WAYPOINT1_LAT
    /\ WpBaseAddr(0) + 8 = ADDR_WAYPOINT1_LON

(***************************************************************************)
(* One action per press                                                    *)
(***************************************************************************)
\* a sample that finds the button released after an accepted press
ReleaseStep ==
    /\ pc = "button" /\ pc' # "begin"
    /\ lastButtonState = LOW /\ lastButtonState' = HIGH
    /\ press.accepted

\* the time of the sample taken by this step (a short press that enters
\* light sleep advances the clock past it)
SampleTime == IF buttonEvent' = "ShortPress" THEN lastButtonPress' ELSE now'

\* C33: when an accepted press is found released, it has produced exactly
\* one action: a ShortPress when the release comes less than 1000 ms after
\* the press start, a LongPress otherwise (a release at or just after
\* 1000 ms included).
C33_OneActionPerPress ==
    [][ReleaseStep =>
         /\ press'.longs + press'.shorts = 1
         /\ SampleTime - press.at < LONG_PRESS_MS => press'.shorts = 1
         /\ SampleTime - press.at >= LONG_PRESS_MS => press'.longs = 1]_vars

\* the part of C33 that holds: a release less than 1000 ms after the press
\* start produces exactly one ShortPress, and a press sampled as held more
\* than 1000 ms after its start has produced exactly one LongPress
C33_SoundPart ==
    [][ReleaseStep =>
         /\ SampleTime - press.at < LONG_PRESS_MS
               => (press'.shorts = 1 /\ press'.longs = 0)
         /\ press.heldLong => (press'.longs = 1 /\ press'.shorts = 0)]_vars

(***************************************************************************)
(* Saving a waypoint                                                       *)
(***************************************************************************)
\* a press, taken as one operation
PressStep == presses' = presses + 1

\* a short press on the set-waypoint screen that stored a waypoint
SaveStep ==
    /\ PressStep
    /\ buttonEvent' = "ShortPress"
    /\ currentScreen = SCREEN_SET_WAYPOINT
    /\ waypoints' # waypoints

\* the line carries a fix report with a position: fix quality above 0 and
\* latitude and longitude fields that parseGGAPosition accepts
FixWithPosition(line) ==
    /\ HasPrefix(line, PfxGNGGA)
    /\ parseGGAfixQuality(line) > 0
    /\ parseGGAPosition(line).ok

\* C34: when a ShortPress on SetWaypoint saves a waypoint, the latitude and
\* longitude stored are those carried by the $GNGGA sentence that reported
\* the fix: the latest sentence has fix quality above 0 and carries the
\* stored position (not one parsed from a no-fix sentence, nor one left over
\* from an earlier sentence).
C34_SavedFromFixSentence ==
    [][SaveStep =>
         /\ calls # <<>>
         /\ FixWithPosition(calls[Len(calls)])
         /\ waypoints'[waypointToSet].lat = parseGGAPosition(calls[Len(calls)]).lat
         /\ waypoints'[waypointToSet].lon = parseGGAPosition(calls[Len(calls)]).lon]_vars

\* the part of C34 that holds: the latest sentence reported a fix, and the
\* stored position is the current position of the fix record
C34_SoundPart ==
    [][SaveStep =>
         /\ calls # <<>>
         /\ parseGGAfixQuality(calls[Len(calls)]) > 0
         /\ waypoints'[waypointToSet].lat = fix.currentLat
         /\ waypoints'[waypointToSet].lon = fix.currentLon]_vars

\* a waypoint was saved at the position a no-fix sentence carried
SavedHeldPosition ==
    /\ buttonEvent = "ShortPress" /\ prevScreen = SCREEN_SET_WAYPOINT
    /\ \E i \in WpIdx :
          /\ waypoints[i].isSet
          /\ waypoints[i].lat = parseGGAPosition(LineGGAHeld).lat
          /\ waypoints[i].lon = parseGGAPosition(LineGGAHeld).lon

(***************************************************************************)
(* Screen state and the waypoints it refers to                             *)
(***************************************************************************)
\* C35: whenever the current screen is the navigation screen of waypoint
\* i + 1 (SCREEN_WAYPOINT1_NAV + i), activeWaypoint is i + 1 and waypoint i
\* is set; whenever the current screen is the reset/navigate screen,
\* waypointToReset designates a waypoint that is set.
C35_ScreenWaypointSet ==
    /\ \A i \in WpIdx :
          currentScreen = SCREEN_WAYPOINT1_NAV + i =>
             (activeWaypoint = i + 1 /\ waypoints[i].isSet)
    /\ currentScreen = SCREEN_WAYPOINT_RESET =>
          (waypointToReset \in WpIdx /\ waypoints[waypointToReset].isSet)

\* after a restart that loaded the waypoints from the store, the navigation
\* screen of waypoint 2 was opened from its reset/navigate screen
C35_Witness ==
    /\ boots = 1
    /\ currentScreen = SCREEN_WAYPOINT2_NAV
    /\ prevScreen = SCREEN_WAYPOINT_RESET
    /\ activeWaypoint = 2
    /\ waypoints[1].isSet

(***************************************************************************)
(* The way back to the main menu                                           *)
(***************************************************************************)
\* the fields a press works on, as they are now
UiNow ==
    [currentScreen |-> currentScreen, menuIndex |-> menuIndex,
     waypointToSet |-> waypointToSet, waypointToReset |-> waypointToReset,
     activeWaypoint |-> activeWaypoint, waypoints |-> waypoints,
     eeprom |-> eeprom, power |-> "run"]

\* the states a ShortPress or a LongPress leads to from u while the device
\* keeps running, with the fix record f
PressOutcomes(u, f) ==
    {[v EXCEPT !.power = "run"] :
        v \in {w \in {longPress(u),
                      shortPress(u, f.hasValidPosition, f.haveFix,
                                 f.currentLat, f.currentLon)} :
                 w.power # "deepSleep"}}

\* some sequence of at most k presses leads from u to the main menu
RECURSIVE HomeWithin(_, _, _)
HomeWithin(u, f, k) ==
    \/ u.currentScreen = SCREEN_MAIN_MENU
    \/ k > 0 /\ \E v \in PressOutcomes(u, f) : HomeWithin(v, f, k - 1)

\* C36: from every state the running device reaches there is a finite
\* sequence of ShortPress and LongPress events after which the current
\* screen is the main menu, and a device woken from deep sleep restarts on
\* the main menu.
C36_NoTrap ==
    [][/\ pc' = "button" => HomeWithin(UiNow', fix', MaxPath)
       /\ pc = "asleep" => currentScreen' = SCREEN_MAIN_MENU]_vars

\* on the set-waypoint screen without a fix, where a ShortPress does
\* nothing: the way back is the LongPress
C36_Witness ==
    /\ pc = "button"
    /\ currentScreen = SCREEN_SET_WAYPOINT
    /\ ~fix.haveFix
    /\ presses > 0
    /\ shortPress(UiNow, fix.hasValidPosition, fix.haveFix,
                  fix.currentLat, fix.currentLon) = UiNow
    /\ HomeWithin(UiNow, fix, 1)

(***************************************************************************)
(* What the panel shows after a render pass                                *)
(***************************************************************************)
\* the panel shows the rows of the screen the pass was given (the speed row
\* apart, which the model leaves out)
PanelShows(panel, d) ==
    \A r \in Rows :
       SpeedRow(d.currentScreen, r) \/ panel[r] = ScreenRows(d)[r]

\* C37: after every render pass the panel shows exactly the rows the current
\* screen is meant to show for the current data: no row of a screen shown
\* before remains.
C37_PanelConsistent ==
    [][RefreshStep => PanelShows(lcd'.panel, PassView)]_vars

\* screens on which C37 holds in the loop: the status and set-waypoint
\* screens and the four menus
C37_SoundScreens ==
    {SCREEN_STATUS, SCREEN_MAIN_MENU, SCREEN_WAYPOINT_MENU, SCREEN_SET_WAYPOINT,
     SCREEN_POWER_MENU, SCREEN_WAYPOINT_RESET}

C37_SoundPart ==
    [][(RefreshStep /\ currentScreen \in C37_SoundScreens)
          => PanelShows(lcd'.panel, PassView)]_vars

(***************************************************************************)
(* The order of an iteration of update()                                   *)
(***************************************************************************)
\* the step stored one reading in the rolling buffer: the slot at
\* batteryIndex received the raw percentage and the index moved on by one
OneBatterySample ==
    /\ batt'.batteryReadings =
          [batt.batteryReadings EXCEPT ![batt.batteryIndex] = battLog'.raw]
    /\ batt'.batteryIndex = (batt.batteryIndex + 1) % BATTERY_SAMPLES
    /\ battLog'.at = now'

\* C31: an iteration of update() samples the button once, before any serial
\* byte is consumed; then drains all the buffered bytes, before any
\* rendering; then renders at most once, only when at least 1000 ms have
\* passed since the previous render pass, and takes exactly one battery
\* sample (one step of the rolling buffer) in front of that pass and none
\* otherwise.
C31_LoopOrder ==
    [][/\ pc = "button" =>
             /\ pc' \in {"serial", "asleep"}
             /\ UNCHANGED <<lineBuf, linePos, fix, batt, battLog>>
             /\ ~RefreshStep
       /\ pc = "serial" =>
             /\ pc' = "lcd"
             /\ UNCHANGED <<btnVars, batt, battLog>>
             /\ ~RefreshStep
             /\ \E r \in {drain([lineBuf |-> lineBuf, linePos |-> linePos,
                                 fix |-> fix, calls |-> <<>>, callsAt |-> <<>>,
                                 seen |-> 0], fed')} :
                   /\ r.seen = Len(fed')
                   /\ <<lineBuf', linePos', fix'>> = <<r.lineBuf, r.linePos, r.fix>>
       /\ pc = "lcd" =>
             /\ pc' = "button"
             /\ UNCHANGED <<btnVars, lineBuf, linePos, fix>>
             /\ IF RefreshStep
                THEN /\ now - lcd.pass.at >= LCD_INTERVAL
                     /\ OneBatterySample
                ELSE UNCHANGED <<batt, battLog>>]_vars

\* the iteration at 2400 ms sampled the button, drained a sentence and then
\* rendered, 1200 ms after the first pass, with the second battery sample
C31_Witness ==
    /\ pc = "button"
    /\ now = 2400
    /\ lastButtonState = LOW
    /\ fed = Terminated(LineGGAFixA)
    /\ fix.haveFix
    /\ lcd.pass.at = 2400
    /\ batt.batteryIndex = 2

====
